---- MODULE Spec2Model ----
(***************************************************************************)
(* LifeTimeline: the historical-event ingestion pipeline.                  *)
(*                                                                         *)
(*   src/src/history/ingestHistory.ts  parseTsv, fetchWithLimit,           *)
(*                                     needsEnrich, runHistoryIngest,      *)
(*                                     runHistoryIngestInternal            *)
(*   src/unnamed/part_003              assignHistoricalLanes (the module   *)
(*                                     ./laneAssignment ingestion imports) *)
(*   src/src/HistoricalLayer.tsx       assignHistoricalLanes (the copy of  *)
(*                                     the display layer)                  *)
(*   src/src/db.ts                     the IndexedDB store of events       *)
(*                                                                         *)
(* Three state machines share the variables of this module:                *)
(*   SpecLanes   the two lane-assignment functions applied to bounded      *)
(*               event lists;                                              *)
(*   SpecRunner  fetchWithLimit over a queue of abstract tasks;            *)
(*   Spec        runHistoryIngest: callers, the re-entrancy guard, one     *)
(*               run at a time over the source files and the store.        *)
(***************************************************************************)
EXTENDS Integers, Sequences, FiniteSets, TLC

VARIABLES
    \* ---- lane assignment (SpecLanes)
    laneIn,        \* the events handed to assignHistoricalLanes, in input order
    laneOut,       \* result of ./laneAssignment's assignHistoricalLanes
    laneDone,      \* TRUE once laneOut is computed
    layerOut,      \* result of HistoricalLayer.tsx's assignHistoricalLanes
    layerDone,     \* TRUE once layerOut is computed
    \* ---- single functions (SpecPure)
    fnArgs,        \* the arguments a function of the program is applied to
    fnResult,      \* [fn, value]: the function applied and what it returned
    \* ---- the image prefetch tool (SpecPrefetch)
    pics,          \* the tool's files (manifest, pictures) and the locals of main()
    \* ---- the timeline (SpecDisplay)
    axisRange,     \* <<startISO, endISO>> of the last query made for the axis; <<>> before
    historicalEvents,      \* App state `historicalEvents`
    positionedHistorical,  \* App's `positionedHistorical`: what the layer draws
    \* ---- fetchWithLimit (SpecRunner, and the enrichment of each file in Spec)
    queue,         \* the tasks handed to fetchWithLimit
    limit,         \* its concurrency limit
    idx,           \* `idx`: how many tasks have been taken from the queue
    results,       \* `results`: one slot per task, Empty until assigned
    workers,       \* the run() loops: [st, i, out] per worker
    runner,        \* "idle", "running", or "resolved" once Promise.all resolved
    returned,      \* the array fetchWithLimit resolved with
    started,       \* history: how many times each task was invoked
    settledAs,     \* history: what each task's promise settled with, Pending before
    outOfOrder,    \* history: TRUE once a task settled before a task queued ahead of it
    \* ---- ingestion (Spec)
    files,         \* the source files ./sources/*.tsv: file name -> raw content
    fileOrder,     \* the order in which Object.entries(modules) lists them
    store,         \* the object store historicalEvents: id -> record
    store0,        \* history: the store before the first run
    ingestLock,    \* ingestLock: [running, promise]; promise 0 is null
    promises,      \* the promise p of every run started: "pending", "fulfilled", "rejected"
    inProgress,    \* executions of runHistoryIngestInternal that have not settled
    callers,       \* per call of runHistoryIngest, in order: the promise it returned
    run,           \* the locals of runHistoryIngestInternal and the await it is at
    faults,        \* failures of the environment so far (store, loader, network)
    log            \* history of the current run: files loaded, ids deleted, rows enriched

displayVars == <<axisRange, historicalEvents, positionedHistorical>>

pureVars == <<fnArgs, fnResult, pics>>

laneVars == <<laneIn, laneOut, laneDone, layerOut, layerDone, displayVars, pureVars>>

runnerVars ==
    <<queue, limit, idx, results, workers, runner, returned, started, settledAs, outOfOrder>>

ingestVars ==
    <<files, fileOrder, store, store0, ingestLock, promises, inProgress, callers, run, faults, log>>

vars == <<laneVars, runnerVars, ingestVars>>

(***************************************************************************)
(* JavaScript values.                                                      *)
(***************************************************************************)
\* `undefined` where the other values are strings: an optional field not set.
Undefined == "<undefined>"
\* `undefined` where the other values are objects: the result of a task that threw.
UndefinedObject == [js |-> "undefined"]
\* `null`: getHistoricalEvent found no record, a task that saw nothing to do.
Null == [js |-> "null"]

\* obj[k] of a record whose key may be missing.
Get(obj, k) == IF k \in DOMAIN obj THEN obj[k] ELSE Undefined

\* { ...obj, [k]: v }
With(obj, k, v) ==
    [x \in (DOMAIN obj) \cup {k} |-> IF x = k THEN v ELSE obj[x]]

Range(seq) == {seq[i] : i \in DOMAIN seq}

\* All orderings of a finite set, as sequences without repetition.
Perms(S) ==
    {p \in [1..Cardinality(S) -> S] : \A i, j \in 1..Cardinality(S) : p[i] = p[j] => i = j}

(***************************************************************************)
(* 32-bit integer arithmetic of djb2Hash.  A 32-bit word is <<hi, lo>>,    *)
(* two 16-bit halves of its two's-complement bit pattern.                  *)
(***************************************************************************)
Half == 65536

\* h << 5
Shl5(w) == <<(w[1] * 32 + (w[2] * 32) \div Half) % Half, (w[2] * 32) % Half>>

\* (a + b) | 0
Add32(a, b) == <<(a[1] + b[1] + (a[2] + b[2]) \div Half) % Half, (a[2] + b[2]) % Half>>

IsNeg32(w) == w[1] >= Half \div 2

\* Math.abs(h) of an int32: the magnitude, as an unsigned word (abs(-2^31) = 2^31).
Abs32(w) ==
    IF IsNeg32(w)
    THEN <<(Half - 1 - w[1] + (IF w[2] = 0 THEN 1 ELSE 0)) % Half, (Half - w[2]) % Half>>
    ELSE w

\* a non-negative word modulo n
Mod32(w, n) == (((w[1] % n) * (Half % n)) + (w[2] % n)) % n

RECURSIVE djb2Loop(_, _, _)
djb2Loop(h, str, i) ==
    IF i > Len(str) THEN h
    ELSE djb2Loop(Add32(Add32(Shl5(h), h), <<0, str[i]>>), str, i + 1)

\* djb2Hash(str) % n.  str is the sequence of char codes of the id; 5381 = <<0, 5381>>.
djb2HashMod(str, n) == Mod32(Abs32(djb2Loop(<<0, 5381>>, str, 1)), n)

(***************************************************************************)
(* Dates.  new Date("YYYY-MM-DD").getTime() is UTC midnight of that day.   *)
(* The model's unit of time is 12 hours, so that CANONICAL_WIDTH_DAYS / 2  *)
(* days is a whole number of units: MS_IN_DAY is 2 units.                  *)
(***************************************************************************)
MS_IN_DAY == 2

\* The decimal fields of the date strings the model uses.
DateParts(date) ==
    CASE date = "2020-01-01" -> <<2020, 1, 1>>
      [] date = "2020-01-08" -> <<2020, 1, 8>>
      [] date = "2020-01-20" -> <<2020, 1, 20>>
      [] date = "2020-03-15" -> <<2020, 3, 15>>
      [] date = "2020-03-20" -> <<2020, 3, 20>>
      [] date = "2020-05-30" -> <<2020, 5, 30>>

\* Days from 1970-01-01 to the civil date y-m-d (proleptic Gregorian).
DaysFromCivil(y, m, d) ==
    LET yy  == IF m <= 2 THEN y - 1 ELSE y
        era == yy \div 400
        yoe == yy - era * 400
        mp  == (m + 9) % 12
        doy == (153 * mp + 2) \div 5 + d - 1
        doe == yoe * 365 + yoe \div 4 - yoe \div 100 + doy
    IN  era * 146097 + doe - 719468

\* new Date(date).getTime()
GetTime(date) ==
    LET p == DateParts(date) IN DaysFromCivil(p[1], p[2], p[3]) * MS_IN_DAY

(***************************************************************************)
(* [...events].sort((a, b) => getTime(a.date) - getTime(b.date)):          *)
(* Array.prototype.sort is stable, events of equal date keep input order.  *)
(***************************************************************************)
\* An order that puts each event before those already taken, whatever its date.
InsertByDateMut(sorted, ev) == <<ev>> \o sorted

RECURSIVE InsertByDate(_, _)
InsertByDate(sorted, ev) ==
    IF sorted = <<>> THEN <<ev>>
    ELSE IF GetTime(sorted[Len(sorted)].date) - GetTime(ev.date) <= 0
         THEN Append(sorted, ev)
         ELSE Append(InsertByDate(SubSeq(sorted, 1, Len(sorted) - 1), ev), sorted[Len(sorted)])

RECURSIVE SortByDate(_)
SortByDate(events) ==
    IF events = <<>> THEN <<>>
    ELSE InsertByDate(SortByDate(SubSeq(events, 1, Len(events) - 1)), events[Len(events)])

\* intervals.some((iv) => rangeStart < iv.end && iv.start < rangeEnd)
Overlaps(intervals, rangeStart, rangeEnd) ==
    \E k \in DOMAIN intervals : rangeStart < intervals[k].end /\ intervals[k].start < rangeEnd

(***************************************************************************)
(* assignHistoricalLanes of ./laneAssignment (src/unnamed/part_003), the   *)
(* one ingestion calls.                                                    *)
(***************************************************************************)
MAX_LANES == 3
CANONICAL_WIDTH_DAYS == 45

halfWMs == (CANONICAL_WIDTH_DAYS * MS_IN_DAY) \div 2
collidableLanes == MAX_LANES - 1

\* laneIntervals starts as [] (every lane undefined, read as no interval).
NoIntervals(n) == [l \in 0..(n - 1) |-> <<>>]

\* The probe loop: the lanes without an overlapping interval, in probe order.
RECURSIVE FreeLanes(_, _, _, _, _)
FreeLanes(laneIntervals, baseLane, rangeStart, rangeEnd, offset) ==
    IF offset >= collidableLanes THEN <<>>
    ELSE LET laneIdx == (baseLane + offset) % collidableLanes
             rest    == FreeLanes(laneIntervals, baseLane, rangeStart, rangeEnd, offset + 1)
         IN  IF ~Overlaps(laneIntervals[laneIdx], rangeStart, rangeEnd)
             THEN <<laneIdx>> \o rest
             ELSE rest

\* freeLanes.reduce((a, b) => len(a) <= len(b) ? a : b)
LeastLoadedMut(laneIntervals, freeLanes, acc, i) == acc
RECURSIVE LeastLoaded(_, _, _, _)
LeastLoaded(laneIntervals, freeLanes, acc, i) ==
    IF i > Len(freeLanes) THEN acc
    ELSE LeastLoaded(laneIntervals, freeLanes,
                     IF Len(laneIntervals[acc]) <= Len(laneIntervals[freeLanes[i]])
                     THEN acc ELSE freeLanes[i],
                     i + 1)

\* The lane given when freeLanes is empty: `freeLanes[0] ?? 1`, `laneIndex: 1`.
FallbackLaneMut == MAX_LANES - 1
FallbackLane == 1

\* const laneIdx = freeLanes.length > 1 ? freeLanes.reduce(...) : freeLanes[0] ?? 1
PickLane(laneIntervals, freeLanes) ==
    IF Len(freeLanes) > 1 THEN LeastLoaded(laneIntervals, freeLanes, freeLanes[1], 2)
    ELSE IF Len(freeLanes) = 1 THEN freeLanes[1]
    ELSE FallbackLane

\* One iteration of `for (const ev of sorted)`; st = [intervals, result].
PlaceEvent(st, ev) ==
    LET evMs       == GetTime(ev.date)
        rangeStart == evMs - halfWMs
        rangeEnd   == evMs + halfWMs
        baseLane   == djb2HashMod(ev.id, collidableLanes)
        freeLanes  == FreeLanes(st.intervals, baseLane, rangeStart, rangeEnd, 0)
        laneIdx    == PickLane(st.intervals, freeLanes)
    IN  IF Len(freeLanes) > 0
        THEN [intervals |-> [st.intervals EXCEPT ![laneIdx] =
                                Append(@, [start |-> rangeStart, end |-> rangeEnd])],
              result    |-> Append(st.result, With(ev, "laneIndex", laneIdx))]
        ELSE [intervals |-> st.intervals,
              result    |-> Append(st.result, With(ev, "laneIndex", FallbackLane))]

RECURSIVE PlaceAll(_, _, _)
PlaceAll(st, sorted, i) ==
    IF i > Len(sorted) THEN st
    ELSE PlaceAll(PlaceEvent(st, sorted[i]), sorted, i + 1)

assignHistoricalLanes(events) ==
    PlaceAll([intervals |-> NoIntervals(collidableLanes), result |-> <<>>],
             SortByDate(events), 1).result

(***************************************************************************)
(* assignHistoricalLanes of src/src/HistoricalLayer.tsx: first free lane   *)
(* in probe order, overflow into the last lane.                            *)
(***************************************************************************)
HL_MAX_LANES == 3
HL_CANONICAL_WIDTH_DAYS == 12

HL_halfWMs == (HL_CANONICAL_WIDTH_DAYS * MS_IN_DAY) \div 2
HL_overflowLaneMut == HL_MAX_LANES
HL_overflowLane == HL_MAX_LANES - 1
HL_collidableLanes == HL_MAX_LANES - 1

\* The probe loop: the first lane without an overlap, or -1 when the loop ends.
RECURSIVE HL_Probe(_, _, _, _, _)
HL_Probe(laneIntervals, baseLane, rangeStart, rangeEnd, offset) ==
    IF offset >= HL_collidableLanes THEN -1
    ELSE LET laneIdx == (baseLane + offset) % HL_collidableLanes
         IN  IF ~Overlaps(laneIntervals[laneIdx], rangeStart, rangeEnd)
             THEN laneIdx
             ELSE HL_Probe(laneIntervals, baseLane, rangeStart, rangeEnd, offset + 1)

\* The callback of sorted.map; st = [intervals, result].
HL_PlaceEvent(st, ev) ==
    LET evMs       == GetTime(ev.date)
        rangeStart == evMs - HL_halfWMs
        rangeEnd   == evMs + HL_halfWMs
        baseLane   == djb2HashMod(ev.id, HL_collidableLanes)
        laneIdx    == HL_Probe(st.intervals, baseLane, rangeStart, rangeEnd, 0)
    IN  IF laneIdx >= 0
        THEN [intervals |-> [st.intervals EXCEPT ![laneIdx] =
                                Append(@, [start |-> rangeStart, end |-> rangeEnd])],
              result    |-> Append(st.result, With(ev, "laneIndex", laneIdx))]
        ELSE [intervals |-> st.intervals,
              result    |-> Append(st.result, With(ev, "laneIndex", HL_overflowLane))]

RECURSIVE HL_PlaceAll(_, _, _)
HL_PlaceAll(st, sorted, i) ==
    IF i > Len(sorted) THEN st
    ELSE HL_PlaceAll(HL_PlaceEvent(st, sorted[i]), sorted, i + 1)

HL_assignHistoricalLanes(events) ==
    HL_PlaceAll([intervals |-> NoIntervals(HL_collidableLanes), result |-> <<>>],
                SortByDate(events), 1).result

(***************************************************************************)
(* fetchWithLimit(queue, limit).  JavaScript runs each continuation to its *)
(* next await without interruption, so one action is one such stretch:     *)
(* the call up to Promise.all, a task's promise settling, a run() loop     *)
(* resuming after its await.  Positions are 1-based (task i of the code is *)
(* position i + 1).  Queue entries are functions, so `if (!fn) break`      *)
(* never breaks.                                                           *)
(***************************************************************************)
\* An array slot never assigned (new Array(n)); reads as undefined.
Empty == [js |-> "empty"]
\* A task's promise not settled yet.
Pending == [js |-> "pending"]
\* A task's promise rejected (the task threw).
Throw == [js |-> "throw"]

Min(a, b) == IF a <= b THEN a ELSE b

\* Array.from({ length: Math.min(limit, queue.length) }, () => run())
NumWorkersMut(lim, n) == n
NumWorkersOne(lim, n) == Min(1, n)
NumWorkers(lim, n) == Min(lim, n)

\* const i = idx++ : the value idx has afterwards
NextIdxMut(i) == i
NextIdx(i) == i + 1

\* results[i] = ... : the slot task i's outcome is written to
ResultSlotMut(i, res) ==
    IF \E k \in DOMAIN res : res[k] = Empty
    THEN CHOOSE k \in DOMAIN res : res[k] = Empty /\ \A j \in DOMAIN res : res[j] = Empty => k <= j
    ELSE i
ResultSlot(i, res) == i

\* try { results[i] = await fn() } catch { results[i] = undefined }
StoredResult(out) == IF out = Throw THEN UndefinedObject ELSE out

RunnerIdle ==
    /\ queue = <<>>
    /\ limit = 0
    /\ idx = 0
    /\ results = <<>>
    /\ workers = <<>>
    /\ runner = "idle"
    /\ returned = <<>>
    /\ started = <<>>
    /\ settledAs = <<>>
    /\ outOfOrder = FALSE

\* No fetchWithLimit call is in progress and none has left anything behind.
RunnerReset ==
    /\ queue' = <<>>
    /\ limit' = 0
    /\ idx' = 0
    /\ results' = <<>>
    /\ workers' = <<>>
    /\ runner' = "idle"
    /\ returned' = <<>>
    /\ started' = <<>>
    /\ settledAs' = <<>>
    /\ outOfOrder' = FALSE

\* useState<HistoricalEvent[]>([]): nothing queried, nothing drawn.
DisplayIdle ==
    /\ axisRange = <<>>
    /\ historicalEvents = <<>>
    /\ positionedHistorical = <<>>

\* No function applied on its own.
PureIdle ==
    /\ fnArgs = <<>>
    /\ fnResult = [fn |-> "none"]
    /\ pics = [pc |-> "off"]

LanesIdle ==
    /\ PureIdle
    /\ laneIn = <<>>
    /\ laneOut = <<>>
    /\ laneDone = FALSE
    /\ layerOut = <<>>
    /\ layerDone = FALSE
    /\ DisplayIdle

\* The locals of runHistoryIngestInternal when no run is in progress.
IdleRun ==
    [pc |-> "idle", outcome |-> "none", pos |-> 0, allFromDb |-> <<>>, rows |-> <<>>,
     toRemove |-> {}, toUpsert |-> <<>>, withLanes |-> <<>>,
     totalEvents |-> 0, totalErrors |-> 0]

\* What a run has done so far: files loaded, files whose loader threw, events
\* deleted, tasks that went on to the network (with what the network did and
\* the event the task returned, for the file in hand), and the awaited store
\* operation that rejected last ("get": getHistoricalEvent in a task), and
\* how many times assignHistoricalLanes was executed.
EmptyLog ==
    [loaded |-> {}, loadFailed |-> {}, deleted |-> {}, enriched |-> 0,
     tasks |-> {}, failedAt |-> "none", lanes |-> 0]

IngestIdle ==
    /\ files = <<>>
    /\ fileOrder = <<>>
    /\ store = <<>>
    /\ store0 = <<>>
    /\ ingestLock = [running |-> FALSE, promise |-> 0]
    /\ promises = <<>>
    /\ inProgress = 0
    /\ callers = <<>>
    /\ run = IdleRun
    /\ faults = 0
    /\ log = EmptyLog

\* idx after k workers each took one task, one after the other, from idx = i.
RECURSIVE IdxAfter(_, _)
IdxAfter(i, k) == IF k = 0 THEN i ELSE NextIdx(IdxAfter(i, k - 1))

\* The call: results allocated, idx = 0, every run() started; each takes the
\* next task and invokes it (`stage` is where an invoked task first waits).
RunnerStart(q, lim, stage) ==
    LET n == NumWorkers(lim, Len(q))
        taken == [w \in 1..n |-> IdxAfter(0, w - 1) + 1]
    IN  /\ queue' = q
        /\ limit' = lim
        /\ results' = [i \in 1..Len(q) |-> Empty]
        /\ workers' = [w \in 1..n |-> [st |-> stage, i |-> taken[w], out |-> UndefinedObject]]
        /\ idx' = IdxAfter(0, n)
        /\ runner' = "running"
        /\ returned' = <<>>
        /\ started' = [i \in 1..Len(q) |-> Cardinality({w \in 1..n : taken[w] = i})]
        /\ settledAs' = [i \in 1..Len(q) |-> Pending]
        /\ outOfOrder' = FALSE

\* The promise of the task worker w awaits settles with `out` (a value or Throw).
TaskSettles(w, out) ==
    /\ workers' = [workers EXCEPT ![w] = [st |-> "resume", i |-> @.i, out |-> out]]
    /\ settledAs' = [settledAs EXCEPT ![workers[w].i] = out]
    /\ outOfOrder' = (outOfOrder \/ \E j \in 1..(workers[w].i - 1) : settledAs[j] = Pending)
    /\ UNCHANGED <<queue, limit, idx, results, runner, returned, started>>

\* Worker w continues after its await: stores the result, then takes the next
\* task (while (idx < queue.length)) or ends its loop.
WorkerResume(w, stage) ==
    /\ runner = "running"
    /\ w \in DOMAIN workers
    /\ workers[w].st = "resume"
    /\ results' = [results EXCEPT ![ResultSlot(workers[w].i, results)] = StoredResult(workers[w].out)]
    /\ IF idx < Len(queue)
       THEN /\ workers' = [workers EXCEPT ![w] = [st |-> stage, i |-> idx + 1, out |-> UndefinedObject]]
            /\ idx' = NextIdx(idx)
            /\ started' = [started EXCEPT ![idx + 1] = @ + 1]
       ELSE /\ workers' = [workers EXCEPT ![w] = [st |-> "done", i |-> @.i, out |-> UndefinedObject]]
            /\ UNCHANGED <<idx, started>>
    /\ UNCHANGED <<queue, limit, runner, returned, settledAs, outOfOrder>>

\* Promise.all resolves once every run() has returned; `return results as T[]`.
RunnerCanResolve ==
    /\ runner = "running"
    /\ \A w \in DOMAIN workers : workers[w].st = "done"

\* The array the caller reads: a slot never assigned reads as undefined.
ReturnedArray(res) ==
    [i \in DOMAIN res |-> IF res[i] = Empty THEN UndefinedObject ELSE res[i]]

RunnerResolved ==
    /\ runner' = "resolved"
    /\ returned' = ReturnedArray(results)
    /\ UNCHANGED <<queue, limit, idx, results, workers, started, settledAs, outOfOrder>>

\* Tasks invoked and not settled.
InFlight == {i \in DOMAIN started : started[i] > 0 /\ settledAs[i] = Pending}

(***************************************************************************)
(* SpecRunner: fetchWithLimit over a queue of abstract tasks; each task    *)
(* settles at any time with one of TaskValues or by throwing.              *)
(***************************************************************************)
MaxQueue == 4
MaxLimit == 4
TaskValues == {[value |-> "A"], Null}

InitRunner ==
    /\ queue \in {[i \in 1..n |-> i] : n \in 0..MaxQueue}
    /\ limit \in 1..MaxLimit
    /\ idx = 0
    /\ results = <<>>
    /\ workers = <<>>
    /\ runner = "idle"
    /\ returned = <<>>
    /\ started = <<>>
    /\ settledAs = <<>>
    /\ outOfOrder = FALSE
    /\ LanesIdle
    /\ IngestIdle

\* fetchWithLimit(queue, limit) is called.
AbsCall ==
    /\ runner = "idle"
    /\ RunnerStart(queue, limit, "await")
    /\ UNCHANGED <<laneVars, ingestVars>>

\* An abstract task resolves with a value.
AbsTaskResolves(w) ==
    /\ runner = "running"
    /\ workers[w].st = "await"
    /\ \E v \in TaskValues : TaskSettles(w, v)
    /\ UNCHANGED <<laneVars, ingestVars>>

\* An abstract task throws.
AbsTaskThrows(w) ==
    /\ runner = "running"
    /\ workers[w].st = "await"
    /\ TaskSettles(w, Throw)
    /\ UNCHANGED <<laneVars, ingestVars>>

AbsWorkerResume(w) ==
    /\ WorkerResume(w, "await")
    /\ UNCHANGED <<laneVars, ingestVars>>

AbsResolve ==
    /\ RunnerCanResolve
    /\ RunnerResolved
    /\ UNCHANGED <<laneVars, ingestVars>>

NextRunner ==
    \/ AbsCall
    \/ \E w \in DOMAIN workers : AbsTaskResolves(w)
    \/ \E w \in DOMAIN workers : AbsTaskThrows(w)
    \/ \E w \in DOMAIN workers : AbsWorkerResume(w)
    \/ AbsResolve

(***************************************************************************)
(* Strings.  The primitives the code applies to strings, over the cells    *)
(* that occur in the model's source files.                                 *)
(***************************************************************************)
\* s.trim()
Trim(s) ==
    CASE s = " Example Event " -> "Example Event"
      [] s = " " -> ""
      [] OTHER -> s

\* s.toLowerCase()
ToLowerCase(s) ==
    CASE s = "Date" -> "date"
      [] s = "URL" -> "url"
      [] OTHER -> s

\* s.startsWith(prefix)
StartsWith(s, prefix) ==
    CASE prefix = "#" -> s \in {"# retired rows"}
      [] prefix = "http" -> s \in {"https://en.wikipedia.org/wiki/Example", "http://example.org/x",
                                  "https://img.example/x.png"}
      [] prefix = "http://" -> s \in {"http://example.org/x"}
      [] prefix = "https://" -> s \in {"https://en.wikipedia.org/wiki/Example",
                                      "https://img.example/x.png"}
      [] OTHER -> FALSE

\* s.includes("wikipedia.org")
IncludesWikipedia(s) == s \in {"https://en.wikipedia.org/wiki/Example"}

\* The characters of the strings that occur as a date or as a bound on dates.
Chars(s) ==
    CASE s = "2020-03-15" -> <<"2", "0", "2", "0", "-", "0", "3", "-", "1", "5">>
      [] s = "2020-03-20" -> <<"2", "0", "2", "0", "-", "0", "3", "-", "2", "0">>
      [] s = "2020-05-30" -> <<"2", "0", "2", "0", "-", "0", "5", "-", "3", "0">>
      [] s = "15.03.2020" -> <<"1", "5", ".", "0", "3", ".", "2", "0", "2", "0">>
      [] s = "2020-01-01" -> <<"2", "0", "2", "0", "-", "0", "1", "-", "0", "1">>
      [] s = "2020-03-01" -> <<"2", "0", "2", "0", "-", "0", "3", "-", "0", "1">>
      [] s = "2020-03-18" -> <<"2", "0", "2", "0", "-", "0", "3", "-", "1", "8">>
      [] s = "2020-03-31" -> <<"2", "0", "2", "0", "-", "0", "3", "-", "3", "1">>
      [] s = "2020-06-30" -> <<"2", "0", "2", "0", "-", "0", "6", "-", "3", "0">>
      [] s = "2020-12-31" -> <<"2", "0", "2", "0", "-", "1", "2", "-", "3", "1">>
      [] s = "2024-13-40" -> <<"2", "0", "2", "4", "-", "1", "3", "-", "4", "0">>
      [] s = "2020-02-30" -> <<"2", "0", "2", "0", "-", "0", "2", "-", "3", "0">>
      [] s = "" -> <<>>
      [] OTHER -> <<"?">>

IsDigit(c) == c \in {"0", "1", "2", "3", "4", "5", "6", "7", "8", "9"}

\* DATE_REGEX.test(s): /^\d{4}-\d{2}-\d{2}$/
DATE_REGEX_test(s) ==
    LET c == Chars(s)
    IN  /\ Len(c) = 10
        /\ \A i \in {1, 2, 3, 4, 6, 7, 9, 10} : IsDigit(c[i])
        /\ c[5] = "-" /\ c[8] = "-"

(***************************************************************************)
(* parseTsv(raw, fileName).  A raw file is the sequence of its lines       *)
(* (raw.split(/\r?\n/)), a line the sequence of its cells                  *)
(* (line.split("\t")).                                                     *)
(***************************************************************************)
\* headers.indexOf(name), 1-based; 0 when absent (the code's -1).
RECURSIVE IndexOf(_, _, _)
IndexOf(headers, name, i) ==
    IF i > Len(headers) THEN 0
    ELSE IF headers[i] = name THEN i
    ELSE IndexOf(headers, name, i + 1)

\* line.trim() of a line given by its cells: tabs are white space, so the
\* trimmed line is empty iff every cell is blank, and it starts with the
\* first non-blank cell.
LineIsBlank(cells) == \A k \in DOMAIN cells : Trim(cells[k]) = ""

LineIsCommentMut(cells) == FALSE
LineIsComment(cells) ==
    \E k \in DOMAIN cells :
        /\ Trim(cells[k]) # ""
        /\ \A j \in 1..(k - 1) : Trim(cells[j]) = ""
        /\ StartsWith(Trim(cells[k]), "#")

\* const get = (col) => (col >= 0 && col < cells.length ? cells[col].trim() : "")
GetCell(cells, col) == IF col >= 1 /\ col <= Len(cells) THEN Trim(cells[col]) ELSE ""

\* sourceLine: i + 1 of the code, whose i counts lines from 0; here lines
\* are counted from 1, so the line at position i is physical line i.
SourceLineMut(i) == i - 1
SourceLine(i) == i

\* The body of the for loop over lines[1..]; acc = [rows, errors].
RECURSIVE ParseLines(_, _, _, _)
ParseLines(lines, col, i, acc) ==
    IF i > Len(lines) THEN acc
    ELSE LET cells == lines[i]
             date  == GetCell(cells, col.date)
             url   == GetCell(cells, col.url)
             image == IF col.image >= 1 THEN GetCell(cells, col.image) ELSE ""
             title == IF col.title >= 1 THEN GetCell(cells, col.title) ELSE ""
             lang  == IF col.lang >= 1 THEN GetCell(cells, col.lang) ELSE "en"
         IN  IF LineIsBlank(cells) \/ LineIsComment(cells)
             THEN ParseLines(lines, col, i + 1, acc)
             ELSE IF ~DATE_REGEX_test(date) \/ ~StartsWith(url, "http")
             THEN ParseLines(lines, col, i + 1, [acc EXCEPT !.errors = @ + 1])
             ELSE ParseLines(lines, col, i + 1,
                             [acc EXCEPT !.rows = Append(@,
                                 [date |-> date, url |-> url, image |-> image,
                                  title |-> title, lang |-> lang, sourceLine |-> SourceLine(i)])])

parseTsv(lines) ==
    IF Len(lines) < 2 THEN [rows |-> <<>>, errors |-> 0]
    ELSE LET headers == [k \in DOMAIN lines[1] |-> ToLowerCase(Trim(lines[1][k]))]
             col == [date  |-> IndexOf(headers, "date", 1),
                     url   |-> IndexOf(headers, "url", 1),
                     image |-> IndexOf(headers, "image", 1),
                     title |-> IndexOf(headers, "title", 1),
                     lang  |-> IndexOf(headers, "lang", 1)]
         IN  IF col.date < 1 \/ col.url < 1
             THEN [rows |-> <<>>, errors |-> 1]
             ELSE ParseLines(lines, col, 2, [rows |-> <<>>, errors |-> 0])

(***************************************************************************)
(* Identity.  `${row.date}|${row.url}` and its SHA-1 digest; the digest is *)
(* the table of the real digests of the model's keys, cut to their first   *)
(* six hex digits (as char codes, which djb2Hash reads).                   *)
(***************************************************************************)
IdStr(date, url) == date \o "|" \o url

sha1(str) ==
    CASE str = "2020-03-15|https://en.wikipedia.org/wiki/Example" -> <<48, 49, 52, 51, 98, 55>>
      [] str = "2020-03-20|https://en.wikipedia.org/wiki/Example" -> <<99, 50, 55, 52, 97, 101>>
      [] str = "2020-05-30|https://en.wikipedia.org/wiki/Example" -> <<101, 48, 102, 99, 98, 97>>
      [] str = "2020-03-15|http://example.org/x" -> <<101, 53, 51, 55, 56, 99>>
      [] str = "2020-03-20|http://example.org/x" -> <<54, 50, 52, 98, 97, 54>>
      [] str = "2020-05-30|http://example.org/x" -> <<52, 102, 98, 49, 101, 54>>

RowIdMut(row) == sha1(IdStr(row.date, "https://en.wikipedia.org/wiki/Example"))
RowId(row) == sha1(IdStr(row.date, row.url))

\* HistoryPics/_manifest.json: the keys that have a bundled picture.
manifest == {"2020-05-30|https://en.wikipedia.org/wiki/Example"}

(***************************************************************************)
(* The store (src/src/db.ts): records of the object store historicalEvents *)
(* keyed by id.  An operation that fails leaves the store as it was (its   *)
(* transaction aborts).                                                    *)
(***************************************************************************)
HISTORICAL_WHITELIST ==
    {"id", "date", "url", "title", "lang", "thumbnailUrl", "previewBlob", "tags",
     "sourceFile", "sourceLine", "updatedAt", "enrichVersion", "summary", "importance", "ruUrl"}

\* The keys the program ever sets to undefined (the others hold numbers,
\* arrays or required strings).
OptionalKeys == {"thumbnailUrl", "previewBlob", "summary", "ruUrl"}

\* for (const k of HISTORICAL_WHITELIST) if (k in raw && raw[k] !== undefined) out[k] = raw[k]
sanitizeHistoricalEventMut(raw) ==
    [k \in {x \in DOMAIN raw : ~(x \in OptionalKeys /\ raw[x] = Undefined)} |-> raw[k]]
sanitizeHistoricalEvent(raw) ==
    [k \in {x \in HISTORICAL_WHITELIST \cap DOMAIN raw :
                ~(x \in OptionalKeys /\ raw[x] = Undefined)} |-> raw[k]]

\* store.put of each sanitized event, in order: a later record of the same id wins.
RECURSIVE PutAll(_, _, _)
PutAll(st, events, i) ==
    IF i > Len(events) THEN st
    ELSE LET ev == sanitizeHistoricalEvent(events[i])
         IN  PutAll([id \in (DOMAIN st) \cup {ev.id} |-> IF id = ev.id THEN ev ELSE st[id]],
                    events, i + 1)

bulkUpsertHistoricalEvents(st, events) == PutAll(st, events, 1)

deleteHistoricalEventsByIds(st, ids) == [id \in (DOMAIN st) \ ids |-> st[id]]

\* getHistoricalEvent(id)
getHistoricalEvent(st, id) ==
    IF id \in DOMAIN st THEN sanitizeHistoricalEvent(st[id]) ELSE Null

\* Order of the keys of the object store: ids compare as strings.
RECURSIVE LexLess(_, _, _)
LexLess(a, b, i) ==
    IF i > Len(a) THEN i <= Len(b)
    ELSE IF i > Len(b) THEN FALSE
    ELSE IF a[i] # b[i] THEN a[i] < b[i]
    ELSE LexLess(a, b, i + 1)

RECURSIVE SortedIds(_)
SortedIds(S) ==
    IF S = {} THEN <<>>
    ELSE LET least == CHOOSE a \in S : \A b \in S \ {a} : LexLess(a, b, 1)
         IN  <<least>> \o SortedIds(S \ {least})

\* getAllHistoricalEvents(): store.getAll(), every record sanitized.
getAllHistoricalEvents(st) ==
    LET ids == SortedIds(DOMAIN st)
    IN  [i \in DOMAIN ids |-> sanitizeHistoricalEvent(st[ids[i]])]

(***************************************************************************)
(* needsEnrich and the enrichment task of one row.                         *)
(***************************************************************************)
WIKI_CONCURRENCY == 4
ENRICH_VERSION == 1

\* a || b for strings: the empty string is falsy.
OrElse(a, b) == IF a # "" THEN a ELSE b

needsEnrichMut(existing, row) ==
    IF existing = Null THEN TRUE
    ELSE LET titleMatch == OrElse(Trim(row.title), existing.title) = existing.title
             langMatch  == existing.lang = row.lang
             imageMatch == Trim(row.image) = "" \/ Get(existing, "thumbnailUrl") = Trim(row.image)
         IN  ~titleMatch \/ ~langMatch \/ ~imageMatch
                \/ existing.enrichVersion # ENRICH_VERSION
needsEnrich(existing, row) ==
    IF existing = Null THEN TRUE
    ELSE LET titleMatch == OrElse(Trim(row.title), existing.title) = existing.title
             langMatch  == existing.lang = row.lang
             imageMatch == Trim(row.image) = "" \/ Get(existing, "thumbnailUrl") = Trim(row.image)
         IN  ~titleMatch \/ ~langMatch \/ ~imageMatch

\* What the encyclopedia holds for a page, by url.
WikiPage(url) ==
    [title        |-> "Example",
     extract      |-> "<extract of 412 characters>",
     thumbnailUrl |-> "https://upload.wikimedia.org/Example.jpg",
     ruUrl        |-> "https://ru.wikipedia.org/wiki/Example"]

\* decodeURIComponent(url.split("/wiki/")[1] ?? "").replace(/_/g, " ")
SlugTitle(url) == IF url = "https://en.wikipedia.org/wiki/Example" THEN "Example" ELSE ""

\* extract.slice(0, 300)
Slice300(extract) ==
    IF extract = "<extract of 412 characters>" THEN "<its first 300 characters>" ELSE extract

\* fetchWikiThumbnail(url): `response` is what the network does with the query:
\* "page" (the page exists), "missing" (page.missing is set), "error" (fetch or
\* res.json() throws).
WikiResponses == {"page", "missing", "error"}

fetchWikiThumbnail(url, response) ==
    CASE response = "error" -> Throw
      [] response = "missing" ->
             [title |-> SlugTitle(url), extract |-> Undefined,
              thumbnailUrl |-> Undefined, ruUrl |-> Undefined]
      [] response = "page" -> WikiPage(url)

\* generatePreviewBlob(await downloadBlob(thumbnailUrl), 320)
PreviewBlob(thumbnailUrl) == "preview320(" \o thumbnailUrl \o ")"

HasLocalPic(row) == IdStr(row.date, row.url) \in manifest

\* What the query returned to the task, Throw when it threw or was not made.
TaskWiki(row, response) ==
    IF IncludesWikipedia(row.url) THEN fetchWikiThumbnail(row.url, response) ELSE Throw

\* thumbnailUrl after the query: the row's image, else the encyclopedia's thumbnail.
TaskThumb(row, response) ==
    LET thumb0 == IF row.image # "" THEN Trim(row.image) ELSE Undefined
        wiki   == TaskWiki(row, response)
    IN  IF wiki # Throw /\ thumb0 = Undefined /\ ~HasLocalPic(row)
        THEN wiki.thumbnailUrl ELSE thumb0

\* if (thumbnailUrl && !hasLocalPic): the task downloads the thumbnail.
DownloadAttemptedMut(row, response) == TaskThumb(row, response) # Undefined
DownloadAttempted(row, response) ==
    TaskThumb(row, response) # Undefined /\ ~HasLocalPic(row)

\* The title of the event: `row.title.trim() || undefined`, then
\* `if (!title) title = wiki.title` when the query returned, then
\* `title ?? row.url`.  wiki is the query's result, or Throw.
TaskTitleMut(row, wiki) ==
    IF wiki # Throw THEN wiki.title
    ELSE IF Trim(row.title) # "" THEN Trim(row.title) ELSE row.url
TaskTitle(row, wiki) ==
    LET title0 == IF Trim(row.title) # "" THEN Trim(row.title) ELSE Undefined
        title1 == IF wiki # Throw /\ title0 = Undefined THEN wiki.title ELSE title0
    IN  IF title1 # Undefined THEN title1 ELSE row.url

\* The task of one row once needsEnrich is true: the event it returns.
\* `response` is the outcome of the encyclopedia query, `download` that of
\* fetching and downsizing the thumbnail ("ok" or "error"), `now` the clock.
EnrichedEvent(row, fileName, response, download, now) ==
    LET idStr       == IdStr(row.date, row.url)
        hasLocalPic == HasLocalPic(row)
        wiki        == TaskWiki(row, response)
        gotWiki     == wiki # Throw
        summary     == IF gotWiki /\ wiki.extract # Undefined
                       THEN Slice300(wiki.extract) ELSE Undefined
        thumb1      == TaskThumb(row, response)
        ruUrl       == IF gotWiki THEN wiki.ruUrl ELSE Undefined
        preview0    == IF DownloadAttempted(row, response) /\ download = "ok"
                       THEN PreviewBlob(thumb1) ELSE Undefined
    IN  [id            |-> sha1(idStr),
         date          |-> row.date,
         url           |-> row.url,
         title         |-> TaskTitle(row, wiki),
         lang          |-> row.lang,
         thumbnailUrl  |-> IF hasLocalPic THEN Undefined ELSE thumb1,
         previewBlob   |-> IF hasLocalPic THEN Undefined ELSE preview0,
         tags          |-> <<>>,
         sourceFile    |-> fileName,
         sourceLine    |-> row.sourceLine,
         updatedAt     |-> now,
         enrichVersion |-> ENRICH_VERSION,
         summary       |-> summary,
         importance    |-> 3,
         ruUrl         |-> ruUrl]

\* currentIds of a file's rows
CurrentIds(rows) == {RowId(rows[i]) : i \in DOMAIN rows}

\* A filter that keeps the file's events whose row is gone only when the file
\* has no row left.
ToRemoveMut(allFromDb, fileName, currentIds) ==
    {allFromDb[i].id : i \in {k \in DOMAIN allFromDb :
        allFromDb[k].sourceFile = fileName /\ currentIds = {}}}

\* allFromDb.filter((e) => e.sourceFile === fileName && !currentIds.has(e.id))
ToRemove(allFromDb, fileName, currentIds) ==
    {allFromDb[i].id : i \in {k \in DOMAIN allFromDb :
        allFromDb[k].sourceFile = fileName /\ allFromDb[k].id \notin currentIds}}

(***************************************************************************)
(* Spec: runHistoryIngest.  Source files and the store before the first    *)
(* run are drawn from bounded sets; callers call at any time; every await  *)
(* of a run is a step, and an operation of the store, the loader or the    *)
(* network may fail while fewer than MaxFaults failures have happened.     *)
(***************************************************************************)
MaxRuns == 2
MaxCalls == 2
MaxFaults == 2

FileNames == {"a.tsv", "b.tsv"}

Header3 == <<"date", "url", "title">>

\* test.tsv of the end-to-end scenario: one valid row on line 2.
FileOneRow ==
    << Header3,
       <<"2020-03-15", "https://en.wikipedia.org/wiki/Example", " Example Event ">> >>

\* A row with an image and a bundled picture, and a row of another site.
FileImage ==
    << <<"date", "url", "image", "title", "lang">>,
       <<"2020-05-30", "https://en.wikipedia.org/wiki/Example", "https://img.example/x.png", "T3", "ru">>,
       <<"2020-03-20", "http://example.org/x", "", "", "">>,
       <<"">> >>

\* The same (date, url) on two lines.
FileDup ==
    << Header3,
       <<"2020-03-15", "https://en.wikipedia.org/wiki/Example", "T1">>,
       <<"2020-03-15", "https://en.wikipedia.org/wiki/Example", "T2">> >>

\* A header and no row.
FileEmpty == << Header3, <<"">> >>

\* A comment, two rejected lines, then a row without a title.
FileMixed ==
    << <<"Date", "URL", "title">>,
       <<"# retired rows">>,
       <<"15.03.2020", "https://en.wikipedia.org/wiki/Example", "T1">>,
       <<"2020-03-15", "not-a-url", "T1">>,
       <<"2020-03-15", "https://en.wikipedia.org/wiki/Example", " ">> >>

\* A header without the url column, and a row under it.
FileNoUrl ==
    << <<"date", "title">>,
       <<"2020-03-15", "Example Event">> >>

\* A header and no line break after it.
FileOneLine == << Header3 >>

FileChoices == {FileOneRow, FileImage, FileDup, FileEmpty, FileMixed, FileNoUrl, FileOneLine}

\* What the two files hold: a.tsv any of the choices; b.tsv one row, two, none,
\* or a header without url.
FileSets ==
    {f \in [FileNames -> FileChoices] :
        f["b.tsv"] \in {FileOneRow, FileImage, FileEmpty, FileNoUrl}}

\* A record an earlier run stored for a row of file fileName.
Seed(date, url, title, fileName) ==
    sanitizeHistoricalEvent(
        EnrichedEvent([date |-> date, url |-> url, image |-> "", title |-> title,
                       lang |-> "en", sourceLine |-> 2], fileName, "page", "ok", 0))

StoreOf(events) == bulkUpsertHistoricalEvents(<<>>, events)

\* Stores left by earlier runs over earlier versions of the files: nothing;
\* events of a.tsv, of b.tsv and of a file since removed.
InitStores ==
    { StoreOf(<<>>),
      StoreOf(<<Seed("2020-03-15", "https://en.wikipedia.org/wiki/Example", "Example Event", "a.tsv"),
                Seed("2020-03-20", "http://example.org/x", "", "b.tsv"),
                Seed("2020-03-15", "http://example.org/x", "Old", "old.tsv")>>) }

Init ==
    /\ RunnerIdle
    /\ LanesIdle
    /\ files \in FileSets
    /\ fileOrder \in Perms(FileNames)
    /\ store \in InitStores
    /\ store0 = store
    /\ ingestLock = [running |-> FALSE, promise |-> 0]
    /\ promises = <<>>
    /\ inProgress = 0
    /\ callers = <<>>
    /\ run = IdleRun
    /\ faults = 0
    /\ log = EmptyLog

\* new Date().toISOString(): the clock, read to the run.
Now == Len(promises)

\* if (ingestLock.running && ingestLock.promise) return ingestLock.promise
GuardHitMut == FALSE
GuardHit == ingestLock.running /\ ingestLock.promise # 0

\* finally { ingestLock.running = false; ingestLock.promise = null }
LockAfterSettleMut(outcome) ==
    IF outcome = "throw" THEN ingestLock ELSE [running |-> FALSE, promise |-> 0]
LockAfterSettle(outcome) == [running |-> FALSE, promise |-> 0]

\* runHistoryIngest() is called; the promise the call returns is appended to
\* `callers`.  With a run in flight that is the run's promise.  Otherwise the
\* async body runs to its first await: running = true, runHistoryIngestInternal
\* starts and awaits getAllHistoricalEvents(); then ingestLock.promise = p.
Call ==
    /\ Len(callers) < MaxCalls
    /\ IF GuardHit
       THEN /\ callers' = Append(callers, ingestLock.promise)
            /\ UNCHANGED <<ingestLock, promises, inProgress, run, log, runnerVars>>
       ELSE /\ Len(promises) < MaxRuns
            /\ promises' = Append(promises, "pending")
            /\ ingestLock' = [running |-> TRUE, promise |-> Len(promises) + 1]
            /\ inProgress' = inProgress + 1
            /\ run' = [IdleRun EXCEPT !.pc = "getAll"]
            /\ log' = EmptyLog
            /\ callers' = Append(callers, Len(promises) + 1)
            /\ RunnerReset
    /\ UNCHANGED <<files, fileOrder, store, store0, faults, laneVars>>

\* What an action of the run leaves alone.
RunFrame == UNCHANGED <<files, fileOrder, store0, ingestLock, promises, inProgress, callers, laneVars>>

\* runHistoryIngestInternal throws: its promise rejects.
Throws == [run EXCEPT !.pc = "finally", !.outcome = "throw"]

\* The for loop goes to the file after position `pos`, or leaves the loop
\* for `await getAllHistoricalEvents()` of the lane assignment.
NextFileMut(r) ==
    [r EXCEPT !.pc = "lanesGet", !.rows = <<>>, !.toRemove = {}, !.toUpsert = <<>>]
NextFile(r) ==
    IF r.pos < Len(fileOrder)
    THEN [r EXCEPT !.pc = "load", !.pos = @ + 1, !.rows = <<>>, !.toRemove = {}, !.toUpsert = <<>>]
    ELSE [r EXCEPT !.pc = "lanesGet", !.rows = <<>>, !.toRemove = {}, !.toUpsert = <<>>]

FileName == fileOrder[run.pos]

\* const allFromDb = await getAllHistoricalEvents() succeeds; the loop starts.
GetAllDone ==
    /\ run.pc = "getAll"
    /\ run' = NextFile([run EXCEPT !.allFromDb = getAllHistoricalEvents(store)])
    /\ UNCHANGED <<store, faults, log, runnerVars>>
    /\ RunFrame

\* A store operation the run awaits fails: getAllHistoricalEvents (twice),
\* deleteHistoricalEventsByIds, bulkUpsertHistoricalEvents (twice).
StoreFails ==
    /\ run.pc \in {"getAll", "delete", "upsert", "lanesGet", "lanesPut"}
    /\ faults < MaxFaults
    /\ faults' = faults + 1
    /\ run' = Throws
    /\ log' = [log EXCEPT !.failedAt = run.pc]
    /\ UNCHANGED <<store, runnerVars>>
    /\ RunFrame

\* raw = await loader() throws: totalErrors++, continue.
LoadFails ==
    /\ run.pc = "load"
    /\ faults < MaxFaults
    /\ faults' = faults + 1
    /\ run' = NextFile([run EXCEPT !.totalErrors = @ + 1])
    /\ log' = [log EXCEPT !.loadFailed = @ \cup {FileName}]
    /\ UNCHANGED <<store, runnerVars>>
    /\ RunFrame

\* The tasks of the rows are handed to fetchWithLimit(tasks, WIKI_CONCURRENCY).
StartTasks(rows) == RunnerStart(rows, WIKI_CONCURRENCY, "get")

\* raw = await loader() succeeds: parseTsv, currentIds, toRemove; then the
\* delete is awaited or, with nothing to remove, fetchWithLimit is called.
LoadDone ==
    /\ run.pc = "load"
    /\ LET parsed   == parseTsv(files[FileName])
           toRemove == ToRemove(run.allFromDb, FileName, CurrentIds(parsed.rows))
           r1       == [run EXCEPT !.rows = parsed.rows, !.toRemove = toRemove,
                                   !.totalErrors = @ + parsed.errors]
       IN  /\ log' = [log EXCEPT !.loaded = @ \cup {FileName}, !.tasks = {}]
           /\ IF toRemove # {}
              THEN /\ run' = [r1 EXCEPT !.pc = "delete"]
                   /\ UNCHANGED runnerVars
              ELSE /\ run' = [r1 EXCEPT !.pc = "tasks"]
                   /\ StartTasks(parsed.rows)
    /\ UNCHANGED <<store, faults>>
    /\ RunFrame

\* await deleteHistoricalEventsByIds(toRemove.map((e) => e.id)) succeeds.
DeleteDone ==
    /\ run.pc = "delete"
    /\ store' = deleteHistoricalEventsByIds(store, run.toRemove)
    /\ log' = [log EXCEPT !.deleted = @ \cup
                   {[id |-> id, sourceFile |-> store[id].sourceFile] :
                        id \in (DOMAIN store) \ (DOMAIN store')}]
    /\ run' = [run EXCEPT !.pc = "tasks"]
    /\ StartTasks(run.rows)
    /\ UNCHANGED faults
    /\ RunFrame

\* A task's `await getHistoricalEvent(id)` succeeds: with needsEnrich false the
\* task returns null, otherwise it goes on to the network.
TaskGet(w) ==
    /\ run.pc = "tasks"
    /\ workers[w].st = "get"
    /\ LET row      == queue[workers[w].i]
           existing == getHistoricalEvent(store, RowId(row))
       IN  IF ~needsEnrich(existing, row)
           THEN /\ TaskSettles(w, Null)
                /\ UNCHANGED log
           ELSE /\ workers' = [workers EXCEPT ![w].st = "enrich"]
                /\ log' = [log EXCEPT !.enriched = @ + 1]
                /\ UNCHANGED <<queue, limit, idx, results, runner, returned, started,
                               settledAs, outOfOrder>>
    /\ UNCHANGED <<store, run, faults>>
    /\ RunFrame

\* A task's `await getHistoricalEvent(id)` fails: the task throws.
TaskGetFails(w) ==
    /\ run.pc = "tasks"
    /\ workers[w].st = "get"
    /\ faults < MaxFaults
    /\ faults' = faults + 1
    /\ TaskSettles(w, Throw)
    /\ log' = [log EXCEPT !.failedAt = "get"]
    /\ UNCHANGED <<store, run>>
    /\ RunFrame

\* The failures among a task's network calls.
NetFaults(row, response, download) ==
    (IF IncludesWikipedia(row.url) /\ response # "page" THEN 1 ELSE 0)
      + (IF DownloadAttempted(row, response) /\ download = "error" THEN 1 ELSE 0)

\* The rest of a task: the encyclopedia query and the thumbnail download,
\* each caught when it fails; the task returns the event.
TaskEnrich(w) ==
    /\ run.pc = "tasks"
    /\ workers[w].st = "enrich"
    /\ \E response \in WikiResponses, download \in {"ok", "error"} :
           LET row == queue[workers[w].i]
               ev  == EnrichedEvent(row, FileName, response, download, Now)
           IN  /\ faults + NetFaults(row, response, download) <= MaxFaults
               /\ faults' = faults + NetFaults(row, response, download)
               /\ TaskSettles(w, ev)
               /\ log' = [log EXCEPT !.tasks = @ \cup
                              {[row |-> row,
                                query |-> IF IncludesWikipedia(row.url) THEN response ELSE "none",
                                download |-> IF DownloadAttempted(row, response)
                                             THEN download ELSE "none",
                                event |-> ev]}]
    /\ UNCHANGED <<store, run>>
    /\ RunFrame

\* A run() loop of fetchWithLimit continues after its task settled.
IngestWorkerResume(w) ==
    /\ run.pc = "tasks"
    /\ WorkerResume(w, "get")
    /\ UNCHANGED <<store, run, faults, log>>
    /\ RunFrame

\* results.filter((e) => e != null)
RECURSIVE NonNull(_, _)
NonNull(res, i) ==
    IF i > Len(res) THEN <<>>
    ELSE (IF res[i] = Null \/ res[i] = UndefinedObject THEN <<>> ELSE <<res[i]>>) \o NonNull(res, i + 1)

\* fetchWithLimit resolves and its locals are dropped: toUpsert; the upsert is
\* awaited or, with nothing to write, the loop goes on.
FetchDone ==
    /\ run.pc = "tasks"
    /\ RunnerCanResolve
    /\ RunnerReset
    /\ LET toUpsert == NonNull(ReturnedArray(results), 1)
       IN  run' = IF Len(toUpsert) > 0
                  THEN [run EXCEPT !.pc = "upsert", !.toUpsert = toUpsert]
                  ELSE NextFile(run)
    /\ UNCHANGED <<store, faults, log>>
    /\ RunFrame

\* await bulkUpsertHistoricalEvents(toUpsert) succeeds; totalEvents += length.
UpsertDone ==
    /\ run.pc = "upsert"
    /\ store' = bulkUpsertHistoricalEvents(store, run.toUpsert)
    /\ run' = NextFile([run EXCEPT !.totalEvents = @ + Len(run.toUpsert)])
    /\ UNCHANGED <<faults, log, runnerVars>>
    /\ RunFrame

\* const allEvents = await getAllHistoricalEvents() succeeds: with events,
\* assignHistoricalLanes and the write-back is awaited; without, the run returns.
LanesGetDone ==
    /\ run.pc = "lanesGet"
    /\ LET allEvents == getAllHistoricalEvents(store)
       IN  /\ run' = IF Len(allEvents) > 0
                     THEN [run EXCEPT !.pc = "lanesPut",
                                      !.withLanes = assignHistoricalLanes(allEvents)]
                     ELSE [run EXCEPT !.pc = "finally", !.outcome = "ok"]
           /\ log' = [log EXCEPT !.lanes = IF Len(allEvents) > 0 THEN @ + 1 ELSE @]
    /\ UNCHANGED <<store, faults, runnerVars>>
    /\ RunFrame

\* await bulkUpsertHistoricalEvents(withLanes) succeeds; the run returns.
LanesPutDone ==
    /\ run.pc = "lanesPut"
    /\ store' = bulkUpsertHistoricalEvents(store, run.withLanes)
    /\ run' = [run EXCEPT !.pc = "finally", !.outcome = "ok", !.withLanes = <<>>]
    /\ UNCHANGED <<faults, log, runnerVars>>
    /\ RunFrame

\* What p settles as once the finally block has run: the async function
\* returns after a run that returned, rethrows after a run that threw.
SettlesAsMut(outcome) == IF outcome = "ok" THEN "fulfilled" ELSE "pending"
SettlesAs(outcome) == IF outcome = "ok" THEN "fulfilled" ELSE "rejected"

\* After `await runHistoryIngestInternal()` settled: the finally block clears
\* the lock and p settles, fulfilled or rejected as the run ended.
Finally ==
    /\ run.pc = "finally"
    /\ ingestLock' = LockAfterSettle(run.outcome)
    /\ promises' = [promises EXCEPT ![Len(promises)] = SettlesAs(run.outcome)]
    /\ inProgress' = inProgress - 1
    /\ run' = [run EXCEPT !.pc = "idle"]
    /\ UNCHANGED <<files, fileOrder, store, store0, callers, faults, log, runnerVars, laneVars>>

Next ==
    \/ Call
    \/ GetAllDone
    \/ StoreFails
    \/ LoadFails
    \/ LoadDone
    \/ DeleteDone
    \/ \E w \in DOMAIN workers : TaskGet(w)
    \/ \E w \in DOMAIN workers : TaskGetFails(w)
    \/ \E w \in DOMAIN workers : TaskEnrich(w)
    \/ \E w \in DOMAIN workers : IngestWorkerResume(w)
    \/ FetchDone
    \/ UpsertDone
    \/ LanesGetDone
    \/ LanesPutDone
    \/ Finally

Spec == Init /\ [][Next]_vars

\* A step of a run in flight: the continuation of an await whose operation
\* (store, loader, network) has settled, successfully or not.
RunStep ==
    \/ GetAllDone
    \/ StoreFails
    \/ LoadFails
    \/ LoadDone
    \/ DeleteDone
    \/ \E w \in DOMAIN workers : TaskGet(w)
    \/ \E w \in DOMAIN workers : TaskGetFails(w)
    \/ \E w \in DOMAIN workers : TaskEnrich(w)
    \/ \E w \in DOMAIN workers : IngestWorkerResume(w)
    \/ FetchDone
    \/ UpsertDone
    \/ LanesGetDone
    \/ LanesPutDone
    \/ Finally

\* A run in flight can always take a step: at every await the continuation
\* of the operation's success is enabled, and with tasks in flight a task can
\* settle, a run() loop can resume or Promise.all can resolve.
RunCanStep ==
    /\ run.pc \in {"idle", "getAll", "load", "delete", "tasks", "upsert", "lanesGet", "lanesPut", "finally"}
    /\ run.pc # "idle" => promises # <<>> /\ promises[Len(promises)] = "pending"
    /\ run.pc = "tasks" =>
          /\ runner = "running"
          /\ \/ \E w \in DOMAIN workers : workers[w].st \in {"get", "enrich", "resume"}
             \/ RunnerCanResolve

\* Every awaited operation eventually settles, and the event loop then runs
\* the continuation that waits for it: weak fairness of RunStep, written out
\* with ENABLED <<RunStep>>_vars as the state predicate it equals
\* (run.pc # "idle", by RunCanStep).  Callers are under no obligation.
RunFairness == []<>(run.pc = "idle") \/ []<><<RunStep>>_vars

SpecFair == Spec /\ RunFairness /\ WF_vars(Finally)

(***************************************************************************)
(* A run of runHistoryIngestInternal in which nothing fails, as a function *)
(* of the store, the files and the order Object.entries(modules) yields.   *)
(***************************************************************************)
\* The events the tasks of a file return, in row order; every task reads the
\* store before the file's upsert.
RECURSIVE TaskEvents(_, _, _, _, _)
TaskEvents(st, rows, fileName, now, i) ==
    IF i > Len(rows) THEN <<>>
    ELSE (IF needsEnrich(getHistoricalEvent(st, RowId(rows[i])), rows[i])
          THEN <<EnrichedEvent(rows[i], fileName, "page", "ok", now)>>
          ELSE <<>>) \o TaskEvents(st, rows, fileName, now, i + 1)

\* One iteration of the for loop.
FilePure(st, allFromDb, raw, fileName, now) ==
    LET rows     == parseTsv(raw).rows
        toRemove == ToRemove(allFromDb, fileName, CurrentIds(rows))
        st1      == IF toRemove # {} THEN deleteHistoricalEventsByIds(st, toRemove) ELSE st
        toUpsert == TaskEvents(st1, rows, fileName, now, 1)
    IN  IF Len(toUpsert) > 0 THEN bulkUpsertHistoricalEvents(st1, toUpsert) ELSE st1

RECURSIVE FilesPure(_, _, _, _, _, _)
FilesPure(st, allFromDb, fs, order, now, i) ==
    IF i > Len(order) THEN st
    ELSE FilesPure(FilePure(st, allFromDb, fs[order[i]], order[i], now),
                   allFromDb, fs, order, now, i + 1)

RunPure(st, fs, order, now) ==
    LET st1       == FilesPure(st, getAllHistoricalEvents(st), fs, order, now, 1)
        allEvents == getAllHistoricalEvents(st1)
    IN  IF Len(allEvents) > 0
        THEN bulkUpsertHistoricalEvents(st1, assignHistoricalLanes(allEvents))
        ELSE st1

(***************************************************************************)
(* SpecDisplay: the timeline of App.  The store is what ingestion left (or *)
(* the store before it); each change of the axis queries the events of a   *)
(* date range and App lays them out.                                       *)
(***************************************************************************)
\* Code unit of a character of a date string.
CharCode(c) ==
    CASE c = "-" -> 45
      [] c = "." -> 46
      [] c = "0" -> 48 [] c = "1" -> 49 [] c = "2" -> 50 [] c = "3" -> 51 [] c = "4" -> 52
      [] c = "5" -> 53 [] c = "6" -> 54 [] c = "7" -> 55 [] c = "8" -> 56 [] c = "9" -> 57
      [] OTHER -> 63

Codes(s) == [i \in DOMAIN Chars(s) |-> CharCode(Chars(s)[i])]

\* a <= b as IndexedDB orders string keys.
KeyLessEq(a, b) == a = b \/ LexLess(Codes(a), Codes(b), 1)

\* The records the index "date" yields in IDBKeyRange.bound(start, end): by
\* date, records of one date by id.
RECURSIVE ByDateThenId(_, _)
ByDateThenId(st, ids) ==
    IF ids = {} THEN <<>>
    ELSE LET first == CHOOSE a \in ids : \A b \in ids \ {a} :
                          \/ LexLess(Codes(st[a].date), Codes(st[b].date), 1)
                          \/ (st[a].date = st[b].date /\ LexLess(a, b, 1))
         IN  <<st[first]>> \o ByDateThenId(st, ids \ {first})

getHistoricalEventsInRange(st, start, end) ==
    LET ids == {id \in DOMAIN st : KeyLessEq(start, st[id].date) /\ KeyLessEq(st[id].date, end)}
        raw == ByDateThenId(st, ids)
    IN  [i \in DOMAIN raw |-> sanitizeHistoricalEvent(raw[i])]

\* startISO, endISO of the effect, for three positions and scales of the axis.
FetchRanges ==
    { <<"2020-03-01", "2020-03-31">>, <<"2020-03-18", "2020-06-30">>,
      <<"2020-01-01", "2020-12-31">> }

\* const historicalWithLanes = useMemo(() => assignHistoricalLanes(historicalEvents))
\* with assignHistoricalLanes imported from ./HistoricalLayer.
historicalWithLanes(events) == HL_assignHistoricalLanes(events)

\* The lane positionedHistorical draws an event in: yTop is
\* axisY + AXIS_GAP + laneIdx * HIST_LANE_HEIGHT.
LaneIdx(e) == Min(e.laneIndex, HL_MAX_LANES - 1)

\* positionedHistorical of the events queried.  Every event of the model has
\* importance 3 and a sourceFile that is not compact-only, so none is filtered.
Positioned(events) ==
    LET withLanes == historicalWithLanes(events)
    IN  [i \in DOMAIN withLanes |-> With(withLanes[i], "laneIdx", LaneIdx(withLanes[i]))]

InitDisplay ==
    /\ RunnerIdle
    /\ LanesIdle
    /\ files \in FileSets
    /\ fileOrder \in Perms(FileNames)
    /\ store0 \in InitStores
    /\ store \in {store0, RunPure(store0, files, fileOrder, 1)}
    /\ ingestLock = [running |-> FALSE, promise |-> 0]
    /\ promises = <<>>
    /\ inProgress = 0
    /\ callers = <<>>
    /\ run = IdleRun
    /\ faults = 0
    /\ log = EmptyLog

\* The effect on [axisDates, scale]: the events of the range are queried and
\* set as state; the render that follows recomputes the memos.
LoadRange(r) ==
    /\ axisRange' = r
    /\ historicalEvents' = getHistoricalEventsInRange(store, r[1], r[2])
    /\ positionedHistorical' = Positioned(historicalEvents')
    /\ UNCHANGED <<laneIn, laneOut, laneDone, layerOut, layerDone, pureVars, runnerVars, ingestVars>>

NextDisplay == \E r \in FetchRanges : LoadRange(r)

SpecDisplay == InitDisplay /\ [][NextDisplay]_vars

(***************************************************************************)
(* SpecLanes: both functions applied to every list of at most MaxLaneEvents*)
(* events with distinct ids.  Ids are six hex digits (char codes):         *)
(*   "0a1b2c" base lane 0      "9d3e4f" base lane 0 (hash negative)        *)
(*   "f7a1c0" base lane 1 (hash negative)      "c274ae" base lane 1        *)
(***************************************************************************)
MaxLaneEvents == 3

LaneIds == { <<48, 97, 49, 98, 50, 99>>, <<57, 100, 51, 101, 52, 102>>,
             <<102, 55, 97, 49, 99, 48>>, <<99, 50, 55, 52, 97, 101>> }

LaneDates == {"2020-01-01", "2020-01-08", "2020-01-20", "2020-03-15"}

LaneEvents == [id : LaneIds, date : LaneDates]

LaneInputs ==
    UNION { {s \in [1..n -> LaneEvents] : \A i, j \in 1..n : s[i].id = s[j].id => i = j}
            : n \in 0..MaxLaneEvents }

InitLanes ==
    /\ RunnerIdle
    /\ IngestIdle
    /\ laneIn \in LaneInputs
    /\ laneOut = <<>>
    /\ laneDone = FALSE
    /\ layerOut = <<>>
    /\ layerDone = FALSE
    /\ DisplayIdle
    /\ PureIdle

\* Ingestion's lane assignment applied to the input.
IngestAssign ==
    /\ ~laneDone
    /\ laneOut' = assignHistoricalLanes(laneIn)
    /\ laneDone' = TRUE
    /\ UNCHANGED <<laneIn, layerOut, layerDone, displayVars, pureVars, runnerVars, ingestVars>>

\* The display layer's lane assignment applied to the input.
LayerAssign ==
    /\ ~layerDone
    /\ layerOut' = HL_assignHistoricalLanes(laneIn)
    /\ layerDone' = TRUE
    /\ UNCHANGED <<laneIn, laneOut, laneDone, displayVars, pureVars, runnerVars, ingestVars>>

NextLanes == IngestAssign \/ LayerAssign

SpecLanes == InitLanes /\ [][NextLanes]_vars

SpecRunner == InitRunner /\ [][NextRunner]_vars

\* Every task eventually settles, and the event loop runs every continuation.
RunnerFairness ==
    /\ \A w \in 1..MaxLimit : WF_vars(w \in DOMAIN workers /\ (AbsTaskResolves(w) \/ AbsTaskThrows(w)))
    /\ \A w \in 1..MaxLimit : WF_vars(AbsWorkerResume(w))
    /\ WF_vars(AbsCall)
    /\ WF_vars(AbsResolve)

SpecRunnerFair == SpecRunner /\ RunnerFairness

(***************************************************************************)
(* C1  Idempotent re-ingestion: in a run that follows a run completed with *)
(* no failure at all, over the same files, needsEnrich is false for every  *)
(* row: no task goes on to the network and nothing is upserted.            *)
(***************************************************************************)
C1_IdempotentReingestion ==
    (Len(promises) >= 2 /\ promises[1] = "fulfilled" /\ faults = 0)
        => (log.enriched = 0 /\ run.toUpsert = <<>>)

\* The fields of the stored events that C3 speaks of.
StoreView(st) ==
    [id \in DOMAIN st |->
        [title        |-> st[id].title,
         lang         |-> st[id].lang,
         thumbnailUrl |-> Get(st[id], "thumbnailUrl"),
         previewBlob  |-> Get(st[id], "previewBlob"),
         sourceFile   |-> st[id].sourceFile]]

Reverse(seq) == [i \in DOMAIN seq |-> seq[Len(seq) + 1 - i]]

\* The first run has completed, nothing failed, and no later run has started.
FirstRunCompleted == promises = <<"fulfilled">> /\ faults = 0

\* A completed run leaves what RunPure computes for the order it took.
RunPureAgrees ==
    FirstRunCompleted => store = RunPure(store0, files, fileOrder, 1)

(***************************************************************************)
(* C2  Sync removal: every record a run deletes is, when it is deleted, a  *)
(* record whose sourceFile was loaded in that run and whose id is not among *)
(* the ids of that file's current rows.                                    *)
(***************************************************************************)
C2_SyncRemoval ==
    \A d \in log.deleted :
        /\ d.sourceFile \in log.loaded
        /\ d.id \notin CurrentIds(parseTsv(files[d.sourceFile]).rows)

(***************************************************************************)
(* C3  File-order independence: the ids stored after a completed run, and  *)
(* each event's title, lang, image fields and sourceFile, are those the    *)
(* run leaves when it takes the files in the other order.                  *)
(***************************************************************************)
C3_FileOrderIndependence ==
    FirstRunCompleted =>
        StoreView(store) = StoreView(RunPure(store0, files, Reverse(fileOrder), 1))

(***************************************************************************)
(* C4  Re-entrancy guard: at most one execution of runHistoryIngestInternal *)
(* is in progress; a call made while a run is in flight starts no run and   *)
(* returns the promise of the run in flight, which is still pending.        *)
(***************************************************************************)
C4_ReentrancyGuard ==
    /\ [](inProgress <= 1)
    /\ [][(Len(callers') > Len(callers) /\ inProgress > 0)
            => /\ promises' = promises
               /\ inProgress' = inProgress
               /\ run' = run
               /\ callers'[Len(callers')] = Len(promises)
               /\ promises[Len(promises)] = "pending"]_vars

\* Two calls hold the promise of one run, and it has settled.
C4_Witness ==
    \E i, j \in DOMAIN callers :
        i < j /\ callers[i] = callers[j] /\ promises[callers[i]] # "pending"

(***************************************************************************)
(* C5  Lock release: once a run has settled, fulfilled or rejected, the    *)
(* lock is clear (running = false, promise = null); the lock never refers  *)
(* to a settled promise; and the next call starts a new run.               *)
(***************************************************************************)
C5_LockRelease ==
    /\ [](run.pc = "idle" => ingestLock = [running |-> FALSE, promise |-> 0])
    /\ [](ingestLock.promise # 0 => promises[ingestLock.promise] = "pending")
    /\ [][(Len(callers') > Len(callers) /\ run.pc = "idle")
            => /\ promises' = Append(promises, "pending")
               /\ run'.pc = "getAll"
               /\ ingestLock' = [running |-> TRUE, promise |-> Len(promises')]
               /\ callers'[Len(callers')] = Len(promises')]_vars

\* A run threw, and a later call has started the next run.
C5_Witness ==
    /\ Len(promises) = 2
    /\ promises[1] = "rejected"
    /\ run.pc # "idle"

(***************************************************************************)
(* C6  Concurrency ceiling: for every queue and every limit C >= 1, under  *)
(* every interleaving of completions and failures, the tasks started and   *)
(* not yet settled never number more than min(C, queue length).            *)
(***************************************************************************)
C6_ConcurrencyCeiling ==
    runner # "idle" =>
        /\ limit >= 1
        /\ Cardinality(InFlight) <= Min(limit, Len(queue))

\* The ceiling is reached again after a failure: C tasks in flight, more tasks
\* than C, one task has thrown and its worker has taken a further task.
C6_Witness ==
    /\ runner = "running"
    /\ limit >= 2
    /\ Len(queue) > limit
    /\ Cardinality(InFlight) = limit
    /\ idx > limit
    /\ \E i \in DOMAIN settledAs : settledAs[i] = Throw

(***************************************************************************)
(* C7  Result mapping and failure suppression: when fetchWithLimit         *)
(* resolves, result i is the value task i resolved with, or undefined if   *)
(* task i threw, whatever the order of completion; a throwing task neither *)
(* makes fetchWithLimit reject nor keeps another task from being run.      *)
(***************************************************************************)
C7_ResultMapping ==
    /\ runner \in {"idle", "running", "resolved"}
    /\ runner = "resolved" =>
           /\ Len(returned) = Len(queue)
           /\ \A i \in 1..Len(queue) :
                  /\ started[i] >= 1
                  /\ settledAs[i] # Pending
                  /\ returned[i] = IF settledAs[i] = Throw THEN UndefinedObject ELSE settledAs[i]

\* Resolved after a task settled before one queued ahead of it, one task threw,
\* tasks resolved with different values.
C7_Witness ==
    /\ runner = "resolved"
    /\ Len(queue) >= 3
    /\ outOfOrder
    /\ \E i \in DOMAIN settledAs : settledAs[i] = Throw
    /\ \E i, j \in DOMAIN returned : returned[i] = [value |-> "A"] /\ returned[j] = Null

(***************************************************************************)
(* C8  Runner completion: every task of the queue is invoked exactly once, *)
(* fetchWithLimit resolves only after every task has settled, and when     *)
(* every task eventually settles fetchWithLimit eventually resolves.       *)
(***************************************************************************)
C8_RunnerCompletion ==
    /\ [](\A i \in DOMAIN started : started[i] <= 1)
    /\ [](runner = "resolved" =>
              \A i \in 1..Len(queue) : started[i] = 1 /\ settledAs[i] # Pending)
    /\ <>(runner = "resolved")

\* Resolved with more tasks than workers, every task invoked once, one thrown.
C8_Witness ==
    /\ runner = "resolved"
    /\ limit >= 2
    /\ Len(queue) > limit
    /\ \A i \in 1..Len(queue) : started[i] = 1
    /\ \E i \in DOMAIN settledAs : settledAs[i] = Throw

\* The lane each id received in a result.
LaneOf(result) == {<<result[i].id, result[i].laneIndex>> : i \in DOMAIN result}

\* The orderings of the input's event set.
Reorderings(events) ==
    {[i \in DOMAIN events |-> events[p[i]]] : p \in Perms(DOMAIN events)}

(***************************************************************************)
(* C9  Lane determinism: whatever the order in which a set of events is    *)
(* given, assignHistoricalLanes gives each event id the same laneIndex,    *)
(* events of equal or close dates included.                                *)
(***************************************************************************)
C9_LaneDeterminism ==
    /\ laneDone =>
           \A other \in Reorderings(laneIn) :
               LaneOf(assignHistoricalLanes(other)) = LaneOf(laneOut)
    /\ layerDone =>
           \A other \in Reorderings(laneIn) :
               LaneOf(HL_assignHistoricalLanes(other)) = LaneOf(layerOut)

(***************************************************************************)
(* C10  Lane bound: every event either function returns carries an integer *)
(* laneIndex with 0 <= laneIndex < MAX_LANES, and every input event is     *)
(* returned.                                                               *)
(***************************************************************************)
C10_LaneBound ==
    /\ laneDone =>
           /\ Len(laneOut) = Len(laneIn)
           /\ \A i \in DOMAIN laneOut : laneOut[i].laneIndex \in 0..(MAX_LANES - 1)
    /\ layerDone =>
           /\ Len(layerOut) = Len(laneIn)
           /\ \A i \in DOMAIN layerOut : layerOut[i].laneIndex \in 0..(HL_MAX_LANES - 1)

\* Three events of one date went through both functions: the third found no free lane.
C10_Witness ==
    /\ laneDone /\ layerDone
    /\ Len(laneIn) = 3
    /\ \A i \in DOMAIN laneIn : laneIn[i].date = laneIn[1].date
    /\ \E i \in DOMAIN layerOut : layerOut[i].laneIndex = HL_MAX_LANES - 1
    /\ \E i, j \in DOMAIN laneOut : i # j /\ laneOut[i].laneIndex = 1 /\ laneOut[j].laneIndex = 1

(***************************************************************************)
(* C11  Overflow fallback: an event that finds an overlapping interval in  *)
(* lane 0 and in lane 1 when it is placed is given laneIndex MAX_LANES - 1 *)
(* = 2, by ingestion's function and by the display layer's.                *)
(***************************************************************************)
\* laneIntervals when the k-th event of the sorted list is placed.
IntervalsBefore(events, k) ==
    PlaceAll([intervals |-> NoIntervals(collidableLanes), result |-> <<>>],
             SubSeq(SortByDate(events), 1, k - 1), 1).intervals

HL_IntervalsBefore(events, k) ==
    HL_PlaceAll([intervals |-> NoIntervals(HL_collidableLanes), result |-> <<>>],
                SubSeq(SortByDate(events), 1, k - 1), 1).intervals

\* The k-th event of the sorted list finds no collidable lane free.
NoLaneFree(events, k) ==
    LET ev == SortByDate(events)[k]
    IN  FreeLanes(IntervalsBefore(events, k), djb2HashMod(ev.id, collidableLanes),
                  GetTime(ev.date) - halfWMs, GetTime(ev.date) + halfWMs, 0) = <<>>

HL_NoLaneFree(events, k) ==
    LET ev == SortByDate(events)[k]
    IN  HL_Probe(HL_IntervalsBefore(events, k), djb2HashMod(ev.id, HL_collidableLanes),
                 GetTime(ev.date) - HL_halfWMs, GetTime(ev.date) + HL_halfWMs, 0) = -1

C11_OverflowFallback ==
    /\ laneDone =>
          \A k \in DOMAIN laneOut :
              NoLaneFree(laneIn, k) => laneOut[k].laneIndex = MAX_LANES - 1
    /\ layerDone =>
          \A k \in DOMAIN layerOut :
              HL_NoLaneFree(laneIn, k) => layerOut[k].laneIndex = HL_MAX_LANES - 1

(***************************************************************************)
(* C12  Lane persistence: once a run has completed over a store that is    *)
(* not empty, every event read back from the store carries a laneIndex in  *)
(* 0..2, the lane assignHistoricalLanes gives it over all stored events.   *)
(***************************************************************************)
\* The last run started has completed and no run is in progress.
RunCompleted ==
    /\ run.pc = "idle"
    /\ promises # <<>>
    /\ promises[Len(promises)] = "fulfilled"

\* The lane assignHistoricalLanes gives the event `id` among `events`.
LaneGiven(events, id) ==
    LET withLanes == assignHistoricalLanes(events)
    IN  withLanes[CHOOSE k \in DOMAIN withLanes : withLanes[k].id = id].laneIndex

C12_LanePersistence ==
    RunCompleted =>
        LET allEvents == getAllHistoricalEvents(store)
        IN  \A i \in DOMAIN allEvents :
                /\ "laneIndex" \in DOMAIN allEvents[i]
                /\ allEvents[i].laneIndex \in 0..(MAX_LANES - 1)
                /\ allEvents[i].laneIndex = LaneGiven(allEvents, allEvents[i].id)

(***************************************************************************)
(* C13  No display-time recomputation: the lane every drawn event is drawn *)
(* in is the lane ingestion's assignHistoricalLanes gives it over all      *)
(* stored events, and it is the lane it is drawn in for every other range  *)
(* that holds the event.                                                   *)
(***************************************************************************)
C13_NoDisplayRecomputation ==
    \A i \in DOMAIN positionedHistorical :
        LET p == positionedHistorical[i]
        IN  /\ p.laneIdx = LaneGiven(getAllHistoricalEvents(store), p.id)
            /\ \A r \in FetchRanges :
                   LET other == Positioned(getHistoricalEventsInRange(store, r[1], r[2]))
                   IN  \A j \in DOMAIN other : other[j].id = p.id => other[j].laneIdx = p.laneIdx

\* The run has ended: runHistoryIngestInternal returned or threw.
RunEnded == run.pc \in {"finally", "idle"} /\ promises # <<>>

\* Every file was visited by the for loop: loaded, or its loader threw.
AllFilesVisited == log.loaded \cup log.loadFailed = FileNames

\* The run got to the lane assignment after the loop.
LaneAssignmentReached == run.outcome = "ok" \/ log.failedAt \in {"lanesGet", "lanesPut"}

\* C14 (store-failure containment): when deleteHistoricalEventsByIds or
\* bulkUpsertHistoricalEvents rejects while a file is processed, the run does
\* not end in rejection because of it, every remaining file is still visited
\* and the lane assignment still runs.
C14_StoreFailureContainment ==
    log.failedAt \in {"delete", "upsert"} =>
        /\ run.outcome # "throw"
        /\ RunEnded => AllFilesVisited /\ LaneAssignmentReached

\* Sum of parseTsv's error counts over the files of S.
RECURSIVE ParseErrors(_)
ParseErrors(S) ==
    IF S = {} THEN 0
    ELSE LET f == CHOOSE g \in S : TRUE
         IN  parseTsv(files[f]).errors + ParseErrors(S \ {f})

\* Ids the store held under sourceFile f when the run took its snapshot.
IdsOfFile(f) == {run.allFromDb[i].id : i \in {k \in DOMAIN run.allFromDb :
                                                   run.allFromDb[k].sourceFile = f}}

\* C15 (source-load failure isolation): for every file whose loader threw, the
\* run's error total counts it exactly once, nothing was deleted for the file
\* and every event stored under it at the start of the run is still stored;
\* and the run still visits every other file and then gets to the lane
\* assignment.
C15_LoadFailureIsolation ==
    log.loadFailed # {} =>
        /\ run.totalErrors = Cardinality(log.loadFailed) + ParseErrors(log.loaded)
        /\ \A f \in log.loadFailed :
              /\ \A d \in log.deleted : d.sourceFile # f
              /\ IdsOfFile(f) \subseteq DOMAIN store
        /\ RunEnded => AllFilesVisited /\ LaneAssignmentReached

\* The part of C15 that is the loader's try/catch alone.
C15_CaughtAndCounted ==
    log.loadFailed # {} =>
        /\ run.totalErrors = Cardinality(log.loadFailed) + ParseErrors(log.loaded)
        /\ \A f \in log.loadFailed :
              /\ \A d \in log.deleted : d.sourceFile # f
              /\ IdsOfFile(f) \subseteq DOMAIN store
        /\ (RunEnded /\ log.failedAt \in {"none", "get"}) => AllFilesVisited /\ LaneAssignmentReached

\* Every promise a caller holds has settled: every caller is released.
CallersReleased == \A c \in DOMAIN callers : promises[callers[c]] # "pending"

\* C16 (run termination): when every awaited operation eventually settles,
\* a run in flight eventually settles, fulfilled or rejected; every caller
\* that holds its promise is then released and the guard is clear.
C16_RunTermination ==
    (inProgress > 0) ~>
        /\ inProgress = 0
        /\ CallersReleased
        /\ ingestLock = [running |-> FALSE, promise |-> 0]

\* A run that threw has settled and released the two callers attached to it.
C16_Witness ==
    /\ Len(callers) = 2
    /\ callers[1] = callers[2]
    /\ promises[callers[1]] = "rejected"
    /\ inProgress = 0
    /\ ~ingestLock.running

\* A task of the file in hand whose query, download or preview generation failed.
TaskFailed(t) == t.query = "error" \/ t.download = "error"

\* The task among log.tasks whose event the file's upsert leaves under an id:
\* the one of the greatest source line (a later put replaces an earlier one).
LastFor(t) ==
    \A u \in log.tasks : u.event.id = t.event.id => u.row.sourceLine <= t.row.sourceLine

\* The file in hand has been dealt with: its tasks and its upsert are over.
FileOver == run.pc \notin {"tasks", "upsert"}

C17_UpToTheUpsert ==
    \A t \in log.tasks :
        /\ t.event.id = RowId(t.row)
        /\ t.query = "error" =>
              /\ t.event.title = OrElse(Trim(t.row.title), t.row.url)
              /\ t.event.summary = Undefined
              /\ t.event.ruUrl = Undefined
        /\ t.download = "error" => t.event.previewBlob = Undefined
        /\ (FileOver /\ LastFor(t) /\ log.failedAt # "upsert") =>
              /\ t.event.id \in DOMAIN store
              /\ store[t.event.id] = sanitizeHistoricalEvent(t.event)

(***************************************************************************)
(* SpecPure: one function of the program applied to one input.  The inputs *)
(* of needsEnrich are a stored event (or null) and a row as parseTsv       *)
(* returns it; the inputs of the store's functions are a record as a       *)
(* caller hands it over or as an earlier version of the program stored it. *)
(***************************************************************************)
WikiUrl == "https://en.wikipedia.org/wiki/Example"

\* The row parseTsv returns for a line with these cells.
ParsedRow(image, title, lang) ==
    parseTsv(<< <<"date", "url", "image", "title", "lang">>,
                <<"2020-03-15", WikiUrl, image, title, lang>> >>).rows[1]

PureRows ==
    {ParsedRow(image, title, lang) :
        image \in {"", "https://img.example/x.png"},
        title \in {"", " ", " Example Event ", "T1"},
        lang \in {"en", "ru", ""}}

\* Events as a run of this or an earlier version of the program stored them.
PureStored ==
    {sanitizeHistoricalEvent(
        [Seed("2020-03-15", WikiUrl, title, "a.tsv")
            EXCEPT !.lang = lang, !.thumbnailUrl = thumb, !.enrichVersion = version]) :
        title \in {"Example Event", "T1"},
        lang \in {"en", "ru"},
        thumb \in {Undefined, "https://img.example/x.png", "https://upload.wikimedia.org/Example.jpg"},
        version \in {0, ENRICH_VERSION}}

\* Keys that are not in the whitelist: laneIndex of assignHistoricalLanes and
\* the layout fields of earlier versions.
ForeignFields ==
    {<<>>, [laneIndex |-> 1], [lane |-> 2, offsetY |-> 40], [laneIndex |-> 0, manualPosition |-> TRUE]}

\* obj with the fields of extra added.
Merge(obj, extra) ==
    [k \in (DOMAIN obj) \cup (DOMAIN extra) |-> IF k \in DOMAIN extra THEN extra[k] ELSE obj[k]]

\* Records before sanitizing: an event as a task builds it (optional fields
\* may be undefined), with or without foreign fields.
PureRaw ==
    {Merge(EnrichedEvent(row, "a.tsv", response, download, 1), extra) :
        row \in {ParsedRow("", " Example Event ", "en"), ParsedRow("https://img.example/x.png", "", "ru")},
        response \in WikiResponses,
        download \in {"ok", "error"},
        extra \in ForeignFields}

\* Lines of a source file: rows good and bad, a blank line, a comment.
PureLines ==
    { <<"2020-03-15", WikiUrl, " Example Event ">>,
      <<"2020-03-20", "http://example.org/x", "">>,
      <<"2024-13-40", WikiUrl, "T1">>,
      <<"2020-02-30", "http://example.org/x", "T2">>,
      <<"15.03.2020", WikiUrl, "T1">>,
      <<"2020-03-15", "not-a-url", "T1">>,
      <<"15.03.2020", "not-a-url", "T1">>,
      <<"">>,
      <<"# retired rows">> }

Header5 == <<"date", "url", "image", "title", "lang">>

\* Lines under a header with a lang column: a lang, an empty lang cell, a
\* line that ends before the lang cell, a blank line.
PureLines5 ==
    { <<"2020-05-30", WikiUrl, "https://img.example/x.png", "T3", "ru">>,
      <<"2020-03-20", "http://example.org/x", "", "", "">>,
      <<"2020-03-15", WikiUrl>>,
      <<"", "", "", "", " ">> }

\* Headers without a required column.
BadHeaders == { <<"date", "title">>, <<"URL", "title">>, <<"title">> }

\* Files of a header and one or two lines; files whose header lacks a
\* required column; a file of one line.
PureFiles ==
    {<<Header3, l>> : l \in PureLines} \cup {<<Header3, l1, l2>> : l1, l2 \in PureLines}
        \cup {<<Header5, l>> : l \in PureLines5}
        \cup {<<Header5, l1, l2>> : l1, l2 \in PureLines5}
        \cup {<<h, l>> : h \in BadHeaders, l \in {<<"2020-03-15", WikiUrl>>, <<"">>}}
        \cup {<<Header3>>}

InitPure ==
    /\ RunnerIdle
    /\ IngestIdle
    /\ laneIn = <<>>
    /\ laneOut = <<>>
    /\ laneDone = FALSE
    /\ layerOut = <<>>
    /\ layerDone = FALSE
    /\ DisplayIdle
    /\ fnResult = [fn |-> "none"]
    /\ pics = [pc |-> "off"]
    /\ fnArgs \in {[existing |-> existing, row |-> row] :
                      existing \in PureStored \cup {Null}, row \in PureRows}
                  \cup {[raw |-> raw] : raw \in PureRaw}
                  \cup {[lines |-> lines] : lines \in PureFiles}

PureFrame == UNCHANGED <<fnArgs, pics, laneIn, laneOut, laneDone, layerOut, layerDone, displayVars,
                         runnerVars, ingestVars>>

Applied(fn, value) ==
    /\ fnResult.fn = "none"
    /\ fnResult' = [fn |-> fn, value |-> value]
    /\ PureFrame

\* needsEnrich(existing, row)
ApplyNeedsEnrich ==
    /\ "row" \in DOMAIN fnArgs
    /\ Applied("needsEnrich", needsEnrich(fnArgs.existing, fnArgs.row))

\* The object store holding the one record, as stored.
RawStore(raw) == [id \in {raw.id} |-> raw]

\* bulkUpsertHistoricalEvents([raw]) on an empty store: the record written.
ApplyBulkUpsert ==
    /\ "raw" \in DOMAIN fnArgs
    /\ Applied("bulkUpsertHistoricalEvents",
               bulkUpsertHistoricalEvents(<<>>, <<fnArgs.raw>>)[fnArgs.raw.id])

\* getHistoricalEvent(id) of a store that holds raw.
ApplyGet ==
    /\ "raw" \in DOMAIN fnArgs
    /\ Applied("getHistoricalEvent", getHistoricalEvent(RawStore(fnArgs.raw), fnArgs.raw.id))

\* getAllHistoricalEvents() of a store that holds raw.
ApplyGetAll ==
    /\ "raw" \in DOMAIN fnArgs
    /\ Applied("getAllHistoricalEvents", getAllHistoricalEvents(RawStore(fnArgs.raw))[1])

\* getHistoricalEventsInRange of the year, of a store that holds raw.
ApplyGetInRange ==
    /\ "raw" \in DOMAIN fnArgs
    /\ Applied("getHistoricalEventsInRange",
               getHistoricalEventsInRange(RawStore(fnArgs.raw), "2020-01-01", "2020-12-31")[1])

\* parseTsv(raw, fileName)
ApplyParseTsv ==
    /\ "lines" \in DOMAIN fnArgs
    /\ Applied("parseTsv", parseTsv(fnArgs.lines))

NextPure ==
    \/ ApplyNeedsEnrich
    \/ ApplyParseTsv
    \/ ApplyBulkUpsert
    \/ ApplyGet
    \/ ApplyGetAll
    \/ ApplyGetInRange

SpecPure == InitPure /\ [][NextPure]_vars

\* What C18 says of needsEnrich, in the claim's words.
NeedsEnrichSaid(existing, row) ==
    \/ existing = Null
    \/ existing # Null /\ Trim(row.title) # "" /\ row.title # existing.title
    \/ existing # Null /\ row.lang # existing.lang
    \/ existing # Null /\ Trim(row.image) # "" /\ row.image # Get(existing, "thumbnailUrl")

\* C18 (needs-enrichment predicate): needsEnrich(existing, row) is true
\* exactly when no stored event exists, or the row's title is non-blank and
\* differs from the stored title, or the row's lang differs from the stored
\* lang, or the row's image is non-blank and differs from the stored
\* thumbnailUrl; and it is the same for a stored event that differs only in
\* enrichVersion.
C18_NeedsEnrichPredicate ==
    fnResult.fn = "needsEnrich" =>
        /\ fnResult.value = NeedsEnrichSaid(fnArgs.existing, fnArgs.row)
        /\ fnArgs.existing # Null =>
              \A version \in {0, ENRICH_VERSION, ENRICH_VERSION + 1} :
                  fnResult.value =
                      needsEnrich([fnArgs.existing EXCEPT !.enrichVersion = version], fnArgs.row)

\* needsEnrich returned false for an event stored by an earlier enrichment version.
C18_Witness ==
    /\ fnResult.fn = "needsEnrich"
    /\ fnResult.value = FALSE
    /\ fnArgs.existing # Null
    /\ fnArgs.existing.enrichVersion # ENRICH_VERSION
    /\ fnArgs.row.title # ""

\* The functions of db.ts that write or return records of historical events.
StoreFunctions ==
    {"bulkUpsertHistoricalEvents", "getHistoricalEvent", "getAllHistoricalEvents",
     "getHistoricalEventsInRange"}

\* raw[k] is not undefined.
Defined(raw, k) == k \in DOMAIN raw /\ ~(k \in OptionalKeys /\ raw[k] = Undefined)

\* C20 (schema whitelist): the record bulkUpsertHistoricalEvents writes and
\* the record getHistoricalEvent, getAllHistoricalEvents and
\* getHistoricalEventsInRange return hold only keys of the whitelist, and
\* every whitelisted field of the raw record that has a defined value is in
\* it, unchanged.
C20_SchemaWhitelist ==
    fnResult.fn \in StoreFunctions =>
        /\ DOMAIN fnResult.value \subseteq HISTORICAL_WHITELIST
        /\ \A k \in HISTORICAL_WHITELIST :
              Defined(fnArgs.raw, k) =>
                  k \in DOMAIN fnResult.value /\ fnResult.value[k] = fnArgs.raw[k]

\* A stored record with layout fields of an earlier version was read: the
\* fields are gone, the summary is still there.
C20_Witness ==
    /\ fnResult.fn = "getAllHistoricalEvents"
    /\ {"lane", "offsetY"} \subseteq DOMAIN fnArgs.raw
    /\ "lane" \notin DOMAIN fnResult.value
    /\ "summary" \in DOMAIN fnResult.value
    /\ "previewBlob" \notin DOMAIN fnResult.value

\* date + "|" + url of a row or an event.
DateUrl(x) == x.date \o "|" \o x.url

\* C19 (content-addressed identity): two rows of the file in hand have the
\* same id exactly when they have the same date and the same url; a row has
\* the id of a stored event exactly when it has its date and url; every stored
\* event is stored under its id, which is the digest of its own date + "|" +
\* url; and no two stored events have the same date and url.
C19_ContentAddressedIdentity ==
    /\ \A i, j \in DOMAIN run.rows :
          RowId(run.rows[i]) = RowId(run.rows[j])
              <=> (run.rows[i].date = run.rows[j].date /\ run.rows[i].url = run.rows[j].url)
    /\ \A i \in DOMAIN run.rows : \A id \in DOMAIN store :
          RowId(run.rows[i]) = id
              <=> (run.rows[i].date = store[id].date /\ run.rows[i].url = store[id].url)
    /\ \A id \in DOMAIN store :
          /\ store[id].id = id
          /\ id = sha1(DateUrl(store[id]))
    /\ \A id1, id2 \in DOMAIN store :
          (store[id1].date = store[id2].date /\ store[id1].url = store[id2].url) => id1 = id2

\* After a second run that wrote events, the store holds events that share a
\* date but not the url and events that share a url but not the date, and the
\* file in hand has the same (date, url) on two lines.
C19_Witness ==
    /\ Len(promises) = 2
    /\ run.pc = "upsert"
    /\ \E i, j \in DOMAIN run.rows : i # j /\ RowId(run.rows[i]) = RowId(run.rows[j])
    /\ \E id1, id2 \in DOMAIN store :
          id1 # id2 /\ store[id1].date = store[id2].date /\ store[id1].url # store[id2].url
    /\ \E id1, id2 \in DOMAIN store :
          id1 # id2 /\ store[id1].url = store[id2].url /\ store[id1].date # store[id2].date

\* C21 (local-image precedence): an event the enrichment step builds for a
\* row whose date|url has an entry in the manifest has neither thumbnailUrl
\* nor previewBlob, whatever the row's image and the encyclopedia's thumbnail,
\* and no download was attempted for it; and every stored event whose
\* date|url is in the manifest is stored without the two fields.
C21_LocalImagePrecedence ==
    /\ \A t \in log.tasks :
          DateUrl(t.row) \in manifest =>
              /\ t.event.thumbnailUrl = Undefined
              /\ t.event.previewBlob = Undefined
              /\ t.download = "none"
    /\ \A id \in DOMAIN store :
          DateUrl(store[id]) \in manifest =>
              /\ "thumbnailUrl" \notin DOMAIN store[id]
              /\ "previewBlob" \notin DOMAIN store[id]

\* A row with an image and a bundled picture was enriched with the page found
\* (which has a thumbnail), and its event is stored.
C21_Witness ==
    \E t \in log.tasks :
        /\ DateUrl(t.row) \in manifest
        /\ t.row.image # ""
        /\ t.query = "page"
        /\ FileOver
        /\ t.event.id \in DOMAIN store
        /\ store[t.event.id].updatedAt = t.event.updatedAt

\* The number a string of digits writes.
RECURSIVE DigitsValue(_, _, _)
DigitsValue(c, from, to) ==
    IF to < from THEN 0 ELSE 10 * DigitsValue(c, from, to - 1) + (CharCode(c[to]) - 48)

\* Days of month m of year y.
DaysInMonth(y, m) ==
    IF m \in {4, 6, 9, 11} THEN 30
    ELSE IF m = 2 THEN (IF y % 4 = 0 /\ (y % 100 # 0 \/ y % 400 = 0) THEN 29 ELSE 28)
    ELSE 31

\* s is a valid YYYY-MM-DD date: the shape, a month of the year, a day of the month.
ValidDateSaid(s) ==
    LET c == Chars(s)
    IN  /\ Len(c) = 10
        /\ \A i \in {1, 2, 3, 4, 6, 7, 9, 10} : IsDigit(c[i])
        /\ c[5] = "-" /\ c[8] = "-"
        /\ DigitsValue(c, 6, 7) \in 1..12
        /\ DigitsValue(c, 9, 10) \in 1..DaysInMonth(DigitsValue(c, 1, 4), DigitsValue(c, 6, 7))

\* The physical lines of a file (header = 1) that are data rows.
DataLines(lines) ==
    {i \in 2..Len(lines) : ~LineIsBlank(lines[i]) /\ ~LineIsComment(lines[i])}

\* The data rows C22 says are dropped (columns: date, url, title).
RejectedSaid(lines) ==
    {i \in DataLines(lines) :
        ~ValidDateSaid(GetCell(lines[i], 1)) \/ ~StartsWith(GetCell(lines[i], 2), "http")}

\* C22 (parser rejection): parseTsv drops exactly the data rows whose date is
\* not a valid YYYY-MM-DD date or whose url does not begin with http, counts
\* one error for each of them, and returns the other data rows.
C22_ParserRejection ==
    (fnResult.fn = "parseTsv" /\ Len(fnArgs.lines) >= 2 /\ fnArgs.lines[1] \in {Header3, Header5}) =>
        /\ fnResult.value.errors = Cardinality(RejectedSaid(fnArgs.lines))
        /\ {fnResult.value.rows[k].sourceLine : k \in DOMAIN fnResult.value.rows}
              = DataLines(fnArgs.lines) \ RejectedSaid(fnArgs.lines)

\* The same with a date being what DATE_REGEX accepts: four digits, two, two.
C22_ShapeOnly ==
    (fnResult.fn = "parseTsv" /\ Len(fnArgs.lines) >= 2 /\ fnArgs.lines[1] \in {Header3, Header5}) =>
        LET rejected == {i \in DataLines(fnArgs.lines) :
                            ~DATE_REGEX_test(GetCell(fnArgs.lines[i], 1))
                               \/ ~StartsWith(GetCell(fnArgs.lines[i], 2), "http")}
        IN  /\ fnResult.value.errors = Cardinality(rejected)
            /\ {fnResult.value.rows[k].sourceLine : k \in DOMAIN fnResult.value.rows}
                  = DataLines(fnArgs.lines) \ rejected

\* The first run of the program has completed: both files were loaded and
\* no store operation failed in it.
FirstRunDone ==
    /\ Len(promises) = 1
    /\ promises[1] = "fulfilled"
    /\ log.failedAt = "none"
    /\ log.loaded = FileNames

\* The stored events a run of this behaviour wrote (the clock of the runs
\* starts at 1; events of earlier runs have updatedAt 0).
WrittenHere == {id \in DOMAIN store : store[id].updatedAt >= 1}

\* C23 (end-to-end creation): a first run over an empty store and one file
\* whose header names date, url and title and whose only data row, valid, is
\* on line 2 (the other file holds no row) leaves exactly one stored event:
\* id = digest of date|url, title = the row's title, sourceFile = the file's
\* name, sourceLine = 2.  And every event a run wrote has by sourceLine the
\* physical line of its file (header = line 1) that holds its date and url.
C23_EndToEndCreation ==
    /\ (FirstRunDone /\ store0 = <<>> /\ files["a.tsv"] = FileOneRow /\ files["b.tsv"] = FileEmpty) =>
          /\ Cardinality(DOMAIN store) = 1
          /\ \A id \in DOMAIN store :
                /\ id = sha1("2020-03-15|https://en.wikipedia.org/wiki/Example")
                /\ store[id].id = id
                /\ store[id].title = "Example Event"
                /\ store[id].sourceFile = "a.tsv"
                /\ store[id].sourceLine = 2
    /\ \A id \in WrittenHere :
          LET lines == files[store[id].sourceFile]
              n     == store[id].sourceLine
              col   == [k \in {"date", "url"} |->
                           CHOOSE c \in DOMAIN lines[1] : ToLowerCase(Trim(lines[1][c])) = k]
          IN  /\ n \in 2..Len(lines)
              /\ Trim(lines[n][col.date]) = store[id].date
              /\ Trim(lines[n][col.url]) = store[id].url

\* The end-to-end case has happened, and so has a run that stored the row of
\* line 5 of a file with a comment and two rejected lines before it.
C23_Witness ==
    /\ FirstRunDone
    /\ store0 = <<>>
    /\ files["a.tsv"] = FileOneRow
    /\ files["b.tsv"] = FileEmpty
    /\ Cardinality(DOMAIN store) = 1

C23_WitnessLine5 ==
    \E id \in WrittenHere : store[id].sourceFile = "a.tsv" /\ files["a.tsv"] = FileMixed
                               /\ store[id].sourceLine = 5

(***************************************************************************)
(* The image prefetch tool (scripts: fetch history pictures).  main() reads *)
(* the manifest file, walks the rows of the source files, and for each row *)
(* either skips it, finds its picture on disk, or asks Wikipedia for a     *)
(* thumbnail and downloads it; it writes the manifest once, at the end,    *)
(* when it changed.  A file name `${date}${ext}` is [date, n |-> 1, ext],  *)
(* `${date}_${n}${ext}` is [date, n, ext].                                 *)
(***************************************************************************)
MaxToolRuns == 2

eventKey(date, url) == date \o "|" \o url

\* s.endsWith(suffix), over the image URLs of the tool's rows.
EndsWith(s, suffix) ==
    CASE suffix = ".png" -> s \in {"https://img.example/x.png", "local.png"}
      [] OTHER -> FALSE

\* getExtensionFromUrl(url): by the end of the URL's lower-cased pathname.
getExtensionFromUrl(url) ==
    LET pathname == ToLowerCase(url)
    IN  IF EndsWith(pathname, ".webp") THEN ".webp"
        ELSE IF EndsWith(pathname, ".jpg") \/ EndsWith(pathname, ".jpeg") THEN ".jpg"
        ELSE IF EndsWith(pathname, ".png") THEN ".png"
        ELSE ".webp"

isHttpUrl(s) ==
    LET t == Trim(s)
    IN  StartsWith(t, "http://") \/ StartsWith(t, "https://")

\* getNextFilenameForDate(manifest, date, ext), disk being what readdirSync lists.
getNextFilenameForDate(manifestNow, disk, date, ext) ==
    LET used == {manifestNow[k] : k \in {j \in DOMAIN manifestNow : manifestNow[j].date = date}}
                    \cup {f \in disk : f.date = date}
        base == [date |-> date, n |-> 1, ext |-> ext]
    IN  IF base \notin used THEN base
        ELSE [date |-> date,
              n |-> CHOOSE n \in 2..(Cardinality(used) + 2) :
                        /\ [date |-> date, n |-> n, ext |-> ext] \notin used
                        /\ \A m \in 2..(n - 1) : [date |-> date, n |-> m, ext |-> ext] \in used,
              ext |-> ext]

\* The rows the tool's parseTsv returns for the source files.
ToolRows ==
    {[date |-> "2020-03-15", url |-> "https://en.wikipedia.org/wiki/Example", image |-> ""],
     [date |-> "2020-03-15", url |-> "http://example.org/x", image |-> ""],
     [date |-> "2020-03-15", url |-> "https://en.wikipedia.org/wiki/Example",
      image |-> "https://img.example/x.png"],
     [date |-> "2020-05-30", url |-> "https://en.wikipedia.org/wiki/Example", image |-> "local.png"]}

ToolKeyA == eventKey("2020-03-15", "https://en.wikipedia.org/wiki/Example")
ToolPicA == [date |-> "2020-03-15", n |-> 1, ext |-> ".webp"]

ZeroStats ==
    [downloaded |-> 0, downloadedManual |-> 0, hit |-> 0, skippedManual |-> 0,
     skippedNoWikiImage |-> 0, failed |-> 0]

InitPrefetch ==
    /\ RunnerIdle
    /\ IngestIdle
    /\ laneIn = <<>>
    /\ laneOut = <<>>
    /\ laneDone = FALSE
    /\ layerOut = <<>>
    /\ layerDone = FALSE
    /\ DisplayIdle
    /\ fnArgs = <<>>
    /\ fnResult = [fn |-> "none"]
    /\ \E includeManual \in BOOLEAN,
          allRows \in {<<r>> : r \in ToolRows} \cup {<<r1, r2>> : r1, r2 \in ToolRows},
          manifestFile \in {<<>>, [k \in {ToolKeyA} |-> ToolPicA]},
          disk \in {{}, {ToolPicA}} :
            pics = [pc |-> "idle", includeManual |-> includeManual, allRows |-> allRows,
                    manifestFile |-> manifestFile, disk |-> disk,
                    manifest |-> <<>>, manifestChanged |-> FALSE, pos |-> 0,
                    stats |-> ZeroStats, steps |-> <<>>, runs |-> <<>>]

PrefetchFrame ==
    UNCHANGED <<fnArgs, fnResult, laneIn, laneOut, laneDone, layerOut, layerDone, displayVars,
                runnerVars, ingestVars>>

\* main() up to the loop: the manifest read from its file, the rows parsed.
MainStart ==
    /\ pics.pc = "idle"
    /\ Len(pics.runs) < MaxToolRuns
    /\ pics' = [pics EXCEPT !.pc = "loop", !.manifest = pics.manifestFile,
                            !.manifestChanged = FALSE, !.pos = 1,
                            !.stats = ZeroStats, !.steps = <<>>]
    /\ PrefetchFrame

AtRow == pics.pc = "loop" /\ pics.pos <= Len(pics.allRows)
ToolRow == pics.allRows[pics.pos]
ToolKey == eventKey(ToolRow.date, ToolRow.url)
hasManualImage == Trim(ToolRow.image) # ""
HasExisting == ToolKey \in DOMAIN pics.manifest
\* existing && filePath && fs.existsSync(filePath)
ExistingOnDisk == HasExisting /\ pics.manifest[ToolKey] \in pics.disk

\* What one pass of the loop body did: the row's key, whether its manifest
\* entry named a file on disk when the pass began, whether Wikipedia was
\* queried, the download ("none", "ok", "failed") and whether the manifest
\* was assigned to.
Step(query, download, manifestSet) ==
    [key |-> ToolKey, covered |-> ExistingOnDisk, query |-> query, download |-> download,
     manifestSet |-> manifestSet]

Continue(stat, step) ==
    [pics EXCEPT !.pos = @ + 1, !.stats[stat] = @ + 1, !.steps = Append(@, step)]

\* downloadWithRetry resolved (at one of its RETRY_ATTEMPTS attempts): the
\* file is written, manifest[key] = filename, manifestChanged = true.
Saved(next, filename) ==
    [next EXCEPT !.disk = @ \cup {filename},
                 !.manifest = [k \in DOMAIN @ \cup {ToolKey} |->
                                  IF k = ToolKey THEN filename ELSE @[k]],
                 !.manifestChanged = TRUE]

\* lines 179-187: a manual image already cached
RowManualHit ==
    /\ AtRow /\ hasManualImage
    /\ pics.includeManual /\ isHttpUrl(Trim(ToolRow.image))
    /\ ExistingOnDisk
    /\ pics' = Continue("hit", Step(FALSE, "none", FALSE))
    /\ PrefetchFrame

ManualFilename ==
    IF HasExisting THEN pics.manifest[ToolKey]
    ELSE getNextFilenameForDate(pics.manifest, pics.disk, ToolRow.date,
                                getExtensionFromUrl(Trim(ToolRow.image)))

\* lines 188-196
RowManualDownloaded ==
    /\ AtRow /\ hasManualImage
    /\ pics.includeManual /\ isHttpUrl(Trim(ToolRow.image))
    /\ ~ExistingOnDisk
    /\ pics' = Saved(Continue("downloadedManual", Step(FALSE, "ok", TRUE)), ManualFilename)
    /\ PrefetchFrame

\* lines 197-203: every attempt failed
RowManualFailed ==
    /\ AtRow /\ hasManualImage
    /\ pics.includeManual /\ isHttpUrl(Trim(ToolRow.image))
    /\ ~ExistingOnDisk
    /\ pics' = Continue("failed", Step(FALSE, "failed", FALSE))
    /\ PrefetchFrame

\* lines 205-207
RowSkipManual ==
    /\ AtRow /\ hasManualImage
    /\ ~(pics.includeManual /\ isHttpUrl(Trim(ToolRow.image)))
    /\ pics' = Continue("skippedManual", Step(FALSE, "none", FALSE))
    /\ PrefetchFrame

\* lines 210-217
RowHit ==
    /\ AtRow /\ ~hasManualImage
    /\ ExistingOnDisk
    /\ pics' = Continue("hit", Step(FALSE, "none", FALSE))
    /\ PrefetchFrame

\* line 219: fetchWikiThumbnail rejects (fetch or res.json() failed); nothing
\* in main catches it, so main rejects and the manifest is not written.
RowQueryThrows ==
    /\ AtRow /\ ~hasManualImage /\ ~ExistingOnDisk
    /\ pics' = [pics EXCEPT !.pc = "idle",
                            !.runs = Append(@, [outcome |-> "rejected", stats |-> pics.stats,
                                                steps |-> Append(pics.steps,
                                                                 Step(TRUE, "none", FALSE)),
                                                rewrote |-> FALSE])]
    /\ PrefetchFrame

\* lines 219-225: the page has no thumbnail
RowNoWikiImage ==
    /\ AtRow /\ ~hasManualImage /\ ~ExistingOnDisk
    /\ pics' = Continue("skippedNoWikiImage", Step(TRUE, "none", FALSE))
    /\ PrefetchFrame

WikiFilename ==
    IF HasExisting THEN pics.manifest[ToolKey]
    ELSE getNextFilenameForDate(pics.manifest, pics.disk, ToolRow.date, ".webp")

\* lines 227-235
RowDownloaded ==
    /\ AtRow /\ ~hasManualImage /\ ~ExistingOnDisk
    /\ pics' = Saved(Continue("downloaded", Step(TRUE, "ok", TRUE)), WikiFilename)
    /\ PrefetchFrame

\* lines 236-241
RowDownloadFailed ==
    /\ AtRow /\ ~hasManualImage /\ ~ExistingOnDisk
    /\ pics' = Continue("failed", Step(TRUE, "failed", FALSE))
    /\ PrefetchFrame

\* lines 244-246 and the end of main: the manifest file is written when it changed.
MainEnd ==
    /\ pics.pc = "loop"
    /\ pics.pos > Len(pics.allRows)
    /\ pics' = [pics EXCEPT !.pc = "idle",
                            !.manifestFile = IF pics.manifestChanged THEN pics.manifest ELSE @,
                            !.runs = Append(@, [outcome |-> "resolved", stats |-> pics.stats,
                                                steps |-> pics.steps,
                                                rewrote |-> pics.manifestChanged])]
    /\ PrefetchFrame

NextPrefetch ==
    \/ MainStart
    \/ RowManualHit
    \/ RowManualDownloaded
    \/ RowManualFailed
    \/ RowSkipManual
    \/ RowHit
    \/ RowQueryThrows
    \/ RowNoWikiImage
    \/ RowDownloaded
    \/ RowDownloadFailed
    \/ MainEnd

SpecPrefetch == InitPrefetch /\ [][NextPrefetch]_vars

\* Every pass of the loop body made so far, in any run.
AllSteps ==
    {pics.steps[i] : i \in DOMAIN pics.steps}
        \cup UNION {{pics.runs[r].steps[i] : i \in DOMAIN pics.runs[r].steps} :
                        r \in DOMAIN pics.runs}

StepsOf(r) == {pics.runs[r].steps[i] : i \in DOMAIN pics.runs[r].steps}

\* A pair whose manifest entry names a file on disk: no query, no download,
\* no assignment to the manifest.
CoveredPairsUntouched ==
    \A st \in AllSteps :
        st.covered => ~st.query /\ st.download = "none" /\ ~st.manifestSet

RunIsIdle(r) ==
    /\ \A st \in StepsOf(r) : st.download = "none"
    /\ ~pics.runs[r].rewrote

\* C24 (prefetch idempotence): a (date,url) pair whose manifest entry names
\* a file that exists on disk causes no remote query, no download and no
\* manifest change; and a run directly after a run in which every download
\* succeeded downloads nothing and does not rewrite the manifest.
C24_PrefetchIdempotence ==
    /\ CoveredPairsUntouched
    /\ \A r \in DOMAIN pics.runs :
          (/\ r > 1
           /\ \E st \in StepsOf(r - 1) : st.download = "ok"
           /\ \A st \in StepsOf(r - 1) : st.download # "failed") => RunIsIdle(r)

\* What does hold: the pairs the manifest covers are left alone, and the run
\* after a run that ended normally with every row skipped for its manual
\* image, found on disk or downloaded does nothing.
C24_AfterCompleteRun ==
    /\ CoveredPairsUntouched
    /\ \A r \in DOMAIN pics.runs :
          (/\ r > 1
           /\ pics.runs[r - 1].outcome = "resolved"
           /\ pics.runs[r - 1].stats.failed = 0
           /\ pics.runs[r - 1].stats.skippedNoWikiImage = 0) =>
              /\ RunIsIdle(r)
              /\ \A st \in StepsOf(r) : ~st.query

\* A run downloaded a picture and the next run found every row settled.
C24_CompleteRunReached ==
    /\ Len(pics.runs) = 2
    /\ pics.runs[1].outcome = "resolved"
    /\ pics.runs[1].stats.downloaded >= 1
    /\ pics.runs[1].stats.failed = 0
    /\ pics.runs[1].stats.skippedNoWikiImage = 0
    /\ pics.runs[2].stats.hit >= 1

(***************************************************************************)
(* SpecRunnerHung: fetchWithLimit when one task's promise never settles.   *)
(* AbsTaskHangs marks the await of worker w as one that will never be      *)
(* resumed; at most one task hangs.  Every other task settles and the      *)
(* event loop runs every continuation (RunnerFairness).                    *)
(***************************************************************************)
HungWorkers == {w \in DOMAIN workers : workers[w].st = "hung"}

AbsTaskHangs(w) ==
    /\ runner = "running"
    /\ workers[w].st = "await"
    /\ HungWorkers = {}
    /\ workers' = [workers EXCEPT ![w] = [st |-> "hung", i |-> @.i, out |-> UndefinedObject]]
    /\ UNCHANGED <<queue, limit, idx, results, runner, returned, started, settledAs, outOfOrder>>
    /\ UNCHANGED <<laneVars, ingestVars>>

NextRunnerHung ==
    \/ NextRunner
    \/ \E w \in DOMAIN workers : AbsTaskHangs(w)

SpecRunnerHung == InitRunner /\ [][NextRunnerHung]_vars /\ RunnerFairness

\* Every task but h was invoked once, settled, and had its outcome stored;
\* every worker but w has left its loop.
BatchDoneBut(w, h) ==
    /\ \A i \in DOMAIN queue \ {h} :
          /\ started[i] = 1
          /\ settledAs[i] # Pending
          /\ results[i] = StoredResult(settledAs[i])
    /\ \A v \in DOMAIN workers \ {w} : workers[v].st = "done"
    /\ started[h] = 1
    /\ settledAs[h] = Pending

\* C25 (hung task containment): when one task never settles and the limit is
\* at least 2, every other task of the queue is eventually started and
\* settled by the remaining workers; the hung task holds only the worker
\* that invoked it.
C25_HungTaskContainment ==
    (HungWorkers # {} /\ limit >= 2)
        ~> (HungWorkers # {} /\ \A w \in HungWorkers : BatchDoneBut(w, workers[w].i))

\* The first task of four hangs under a limit of 2, and the other three are done.
C25_Witness ==
    /\ limit = 2
    /\ Len(queue) = 4
    /\ \E w \in HungWorkers : workers[w].i = 1 /\ BatchDoneBut(w, 1)

\* With a limit of 1 the hung task stalls the batch: the tasks behind it are
\* never started.
C25_LimitOneStalls ==
    (limit = 1 /\ HungWorkers # {}) => \A i \in DOMAIN queue : i > idx => started[i] = 0

\* C26 (lane assignment ordering): within one run assignHistoricalLanes is
\* executed at most once, and not at all when the store is empty; it starts
\* only after the for loop has visited every file and no delete, task or
\* upsert of a file is still in flight; it is applied to the store as those
\* writes left it; and once it has run, the only write to the store is its
\* own write-back.
C26_LaneAssignmentOrdering ==
    /\ [](/\ log.lanes <= 1
          /\ log.lanes = 1 =>
                /\ run.pc \in {"lanesPut", "finally", "idle"}
                /\ AllFilesVisited
                /\ runner = "idle"
          /\ run.pc = "lanesPut" =>
                /\ log.lanes = 1
                /\ store # <<>>
                /\ run.withLanes = assignHistoricalLanes(getAllHistoricalEvents(store))
          /\ (RunEnded /\ run.outcome = "ok" /\ store = <<>>) => log.lanes = 0)
    /\ [][(log.lanes = 1 /\ store' # store) =>
              /\ run.pc = "lanesPut"
              /\ store' = bulkUpsertHistoricalEvents(store, run.withLanes)]_vars

\* A run deleted an event of one file, upserted the rows of a file, and then
\* assigned the lanes.
C26_Witness ==
    /\ log.lanes = 1
    /\ log.deleted # {}
    /\ run.totalEvents >= 1
    /\ run.pc = "lanesPut"

\* A run over an empty store and files without rows ends without a lane assignment.
C26_WitnessEmpty ==
    /\ RunCompleted
    /\ store = <<>>
    /\ log.lanes = 0

\* |a - b|
AbsDiff(a, b) == IF a >= b THEN a - b ELSE b - a

\* Any two events of `out` with the same laneIndex in a collidable lane have
\* dates at least `width` days apart.
SameLaneApart(out, width) ==
    \A i, j \in DOMAIN out :
        (i # j /\ out[i].laneIndex = out[j].laneIndex /\ out[i].laneIndex \in {0, 1}) =>
            AbsDiff(GetTime(out[i].date), GetTime(out[j].date)) >= width * MS_IN_DAY

\* C27 (collision-free collidable lanes): in the output of either
\* assignHistoricalLanes, two events with the same laneIndex 0 or 1 have
\* dates at least CANONICAL_WIDTH_DAYS apart; only lane 2 holds events whose
\* windows overlap.
C27_CollisionFreeLanes ==
    /\ laneDone => SameLaneApart(laneOut, CANONICAL_WIDTH_DAYS)
    /\ layerDone => SameLaneApart(layerOut, HL_CANONICAL_WIDTH_DAYS)

\* What does hold: the layer's copy keeps lanes 0 and 1 collision-free, and
\* ingestion's copy does so among the events it placed in a free lane.
C27_RecordedCollisionFree ==
    /\ layerDone => SameLaneApart(layerOut, HL_CANONICAL_WIDTH_DAYS)
    /\ laneDone =>
          \A i, j \in DOMAIN laneOut :
              (/\ i # j
               /\ laneOut[i].laneIndex = laneOut[j].laneIndex
               /\ ~NoLaneFree(laneIn, i)
               /\ ~NoLaneFree(laneIn, j)) =>
                  AbsDiff(GetTime(laneOut[i].date), GetTime(laneOut[j].date))
                      >= CANONICAL_WIDTH_DAYS * MS_IN_DAY

\* The event placed k-th: which collidable lanes are free for it, how many
\* intervals each holds, and its base lane.
LaneFree(events, k, lane) ==
    LET ev == SortByDate(events)[k]
    IN  ~Overlaps(IntervalsBefore(events, k)[lane],
                  GetTime(ev.date) - halfWMs, GetTime(ev.date) + halfWMs)

Load(events, k, lane) == Len(IntervalsBefore(events, k)[lane])

BaseLane(events, k) == djb2HashMod(SortByDate(events)[k].id, collidableLanes)

\* C28 (least-loaded tie-break): when both collidable lanes are free for an
\* event, ingestion's assignHistoricalLanes places it in the lane that holds
\* fewer recorded intervals, in the event's base lane when both hold the
\* same number; when exactly one lane is free, in that lane.
C28_LeastLoadedTieBreak ==
    laneDone =>
        \A k \in DOMAIN laneOut :
            LET free0 == LaneFree(laneIn, k, 0)
                free1 == LaneFree(laneIn, k, 1)
                load0 == Load(laneIn, k, 0)
                load1 == Load(laneIn, k, 1)
                lane  == laneOut[k].laneIndex
            IN  /\ (free0 /\ free1 /\ load0 < load1) => lane = 0
                /\ (free0 /\ free1 /\ load1 < load0) => lane = 1
                /\ (free0 /\ free1 /\ load0 = load1) => lane = BaseLane(laneIn, k)
                /\ (free0 /\ ~free1) => lane = 0
                /\ (free1 /\ ~free0) => lane = 1

\* An event with both lanes free went to the emptier lane although its base
\* lane is the other one.
C28_Witness ==
    /\ laneDone
    /\ \E k \in DOMAIN laneOut :
          /\ LaneFree(laneIn, k, 0) /\ LaneFree(laneIn, k, 1)
          /\ Load(laneIn, k, 0) # Load(laneIn, k, 1)
          /\ laneOut[k].laneIndex # BaseLane(laneIn, k)

\* C29 (ingest-time overflow exception): ingestion's assignHistoricalLanes
\* never returns laneIndex 2; an event for which neither lane 0 nor lane 1
\* is free gets laneIndex 1 and no interval is recorded for it.
C29_IngestOverflowException ==
    laneDone =>
        /\ Len(laneOut) = Len(laneIn)
        /\ \A k \in DOMAIN laneOut :
              /\ laneOut[k].laneIndex \in {0, 1}
              /\ NoLaneFree(laneIn, k) =>
                    /\ laneOut[k].laneIndex = 1
                    /\ IntervalsBefore(laneIn, k + 1) = IntervalsBefore(laneIn, k)
              /\ ~NoLaneFree(laneIn, k) =>
                    IntervalsBefore(laneIn, k + 1) # IntervalsBefore(laneIn, k)

\* Three events: the third found both collidable lanes taken.
C29_Witness ==
    /\ laneDone
    /\ Len(laneOut) = 3
    /\ NoLaneFree(laneIn, 3)
    /\ laneOut[3].laneIndex = 1

\* The title the encyclopedia query gave a task: the page's title, the title
\* made from the url's slug when the page is missing; none when the query
\* threw or was not made.
RemoteTitle(t) ==
    CASE t.query = "page" -> WikiPage(t.row.url).title
      [] t.query = "missing" -> SlugTitle(t.row.url)
      [] OTHER -> Undefined

\* The title cell of the line a stored event was read from ("" without a
\* title column).
TitleCell(ev) ==
    LET lines == files[ev.sourceFile]
        cols  == {c \in DOMAIN lines[1] : ToLowerCase(Trim(lines[1][c])) = "title"}
    IN  IF cols = {} THEN ""
        ELSE GetCell(lines[ev.sourceLine], CHOOSE c \in cols : \A d \in cols : c <= d)

\* C30 (title precedence): the title of an event written by enrichment is
\* the row's trimmed title when that is not blank; otherwise the remote
\* title when the query returned one; otherwise the url.
C30_TitlePrecedence ==
    /\ \A t \in log.tasks :
          LET rowTitle == Trim(t.row.title)
          IN  /\ rowTitle # "" => t.event.title = rowTitle
              /\ (rowTitle = "" /\ RemoteTitle(t) # Undefined) => t.event.title = RemoteTitle(t)
              /\ (rowTitle = "" /\ RemoteTitle(t) = Undefined) => t.event.title = t.row.url
    /\ \A id \in WrittenHere :
          /\ TitleCell(store[id]) # "" => store[id].title = TitleCell(store[id])
          /\ TitleCell(store[id]) = "" =>
                store[id].title \in {WikiPage(store[id].url).title, SlugTitle(store[id].url),
                                     store[id].url}
          /\ store[id].title = store[id].url => TitleCell(store[id]) = ""

\* A row with a title was stored with it although the query returned the
\* page's title; a row without a title took the remote title; and a row
\* without a title whose query failed took the url.
C30_Witness ==
    /\ \E t \in log.tasks :
          t.row.title # "" /\ t.query = "page" /\ t.event.title = t.row.title
              /\ t.event.title # RemoteTitle(t)
    /\ \E id \in WrittenHere : TitleCell(store[id]) # "" /\ store[id].title = TitleCell(store[id])

C30_WitnessRemote ==
    \E t \in log.tasks : t.row.title = "" /\ t.query = "page" /\ t.event.title = "Example"

C30_WitnessUrl ==
    \E id \in WrittenHere :
        /\ store[id].url = "https://en.wikipedia.org/wiki/Example"
        /\ store[id].title = store[id].url

\* The header of the parsed file names both required columns.
HeaderNamesBoth(lines) ==
    /\ Len(lines) >= 2
    /\ \E c \in DOMAIN lines[1] : ToLowerCase(Trim(lines[1][c])) = "date"
    /\ \E c \in DOMAIN lines[1] : ToLowerCase(Trim(lines[1][c])) = "url"

\* The lines after the header that are blank or begin with # (after the
\* white space in front), read from the cells.
SkippedSaid(lines) ==
    {i \in 2..Len(lines) :
        \/ \A k \in DOMAIN lines[i] : lines[i][k] \in {"", " "}
        \/ \E k \in DOMAIN lines[i] :
              /\ lines[i][k] = "# retired rows"
              /\ \A j \in 1..(k - 1) : lines[i][j] \in {"", " "}}

ParsedRows == fnResult.value.rows

\* C31 (parser line partition): for a file whose header names date and url,
\* every line after the header is exactly one of skipped (blank or beginning
\* with #, no error counted), rejected (one error) or accepted: accepted
\* rows + errors + skipped lines = number of data lines; and the accepted
\* rows are returned in file order, with strictly increasing sourceLine.
C31_ParserLinePartition ==
    (fnResult.fn = "parseTsv" /\ HeaderNamesBoth(fnArgs.lines)) =>
        LET lines    == fnArgs.lines
            accepted == {ParsedRows[k].sourceLine : k \in DOMAIN ParsedRows}
        IN  /\ accepted \subseteq (2..Len(lines)) \ SkippedSaid(lines)
            /\ Cardinality(accepted) = Len(ParsedRows)
            /\ Len(ParsedRows) + fnResult.value.errors + Cardinality(SkippedSaid(lines))
                  = Len(lines) - 1
            /\ \A k \in DOMAIN ParsedRows :
                  /\ ParsedRows[k].date = GetCell(lines[ParsedRows[k].sourceLine], 1)
                  /\ ParsedRows[k].url = GetCell(lines[ParsedRows[k].sourceLine], 2)
            /\ \A j, k \in DOMAIN ParsedRows :
                  j < k => ParsedRows[j].sourceLine < ParsedRows[k].sourceLine

\* A file with an accepted row and a rejected one; a file with an accepted
\* row and a skipped line.
C31_Witness ==
    /\ fnResult.fn = "parseTsv"
    /\ HeaderNamesBoth(fnArgs.lines)
    /\ Len(fnArgs.lines) = 3
    /\ Len(ParsedRows) = 1
    /\ fnResult.value.errors = 1

C31_WitnessSkipped ==
    /\ fnResult.fn = "parseTsv"
    /\ Len(fnArgs.lines) = 3
    /\ Len(ParsedRows) = 1
    /\ Cardinality(SkippedSaid(fnArgs.lines)) = 1

\* The lang cell of physical line i ("" when the header has no lang column
\* or the line ends before it).
LangCell(lines, i) ==
    LET cols == {c \in DOMAIN lines[1] : ToLowerCase(Trim(lines[1][c])) = "lang"}
    IN  IF cols = {} THEN ""
        ELSE GetCell(lines[i], CHOOSE c \in cols : \A d \in cols : c <= d)

\* C32 (default language): every row parseTsv returns has lang "en" unless
\* its line supplies a non-empty lang value: when the header has no lang
\* column, and when it has one and the line's cell is empty or missing.
C32_DefaultLanguage ==
    fnResult.fn = "parseTsv" =>
        \A k \in DOMAIN ParsedRows :
            LET cell == LangCell(fnArgs.lines, ParsedRows[k].sourceLine)
            IN  ParsedRows[k].lang = IF cell # "" THEN cell ELSE "en"

\* What does hold: "en" without a lang column, the trimmed cell with one.
C32_DefaultWithoutColumn ==
    fnResult.fn = "parseTsv" =>
        \A k \in DOMAIN ParsedRows :
            /\ fnArgs.lines[1] = Header3 => ParsedRows[k].lang = "en"
            /\ fnArgs.lines[1] = Header5 =>
                  ParsedRows[k].lang = LangCell(fnArgs.lines, ParsedRows[k].sourceLine)

\* The ids of the valid rows of every source file, as parseTsv returns them.
AllRowIds == UNION {CurrentIds(parseTsv(files[f]).rows) : f \in FileNames}

\* C33 (sync completeness): after a run that completed with every file loaded
\* and no store or task failure, the store holds an event for the id of every
\* valid row of every source file, whatever the store held before the run.
C33_SyncCompleteness ==
    FirstRunDone => AllRowIds \subseteq DOMAIN store

\* The same when no stored event's row is in a file other than its sourceFile.
C33_CompleteUnlessMoved ==
    (FirstRunDone /\ \A id \in DOMAIN store0 : \A f \in FileNames :
                        id \in CurrentIds(parseTsv(files[f]).rows) => store0[id].sourceFile = f)
        => AllRowIds \subseteq DOMAIN store

\* The stored events whose sourceFile was loaded in the run and whose id is not
\* among the ids of that file's parsed rows.
StaleEvents ==
    {id \in DOMAIN store :
        /\ store[id].sourceFile \in log.loaded
        /\ id \notin CurrentIds(parseTsv(files[store[id].sourceFile]).rows)}

\* C34 (no stale events): after a run that completed (no store operation
\* failed), every stored event whose sourceFile is a file loaded in that run
\* has an id among the ids of that file's currently parsed rows.
C34_NoStaleEvents ==
    RunCompleted => StaleEvents = {}

\* A completed run deleted an event of a file that still has another row, and
\* the store holds events of loaded files.
C34_Witness ==
    /\ RunCompleted
    /\ \E d \in log.deleted : parseTsv(files[d.sourceFile]).rows # <<>>
    /\ \E id \in DOMAIN store : store[id].sourceFile \in log.loaded

\* The parsed rows of file f that have the id `id`.
RowsOf(f, id) ==
    LET rows == parseTsv(files[f]).rows
    IN  {rows[i] : i \in {k \in DOMAIN rows : RowId(rows[k]) = id}}

\* The events stored before the run whose row is still in some file and for
\* which needsEnrich is false against every row that has their id.
SettledEvents ==
    {id \in DOMAIN store0 :
        /\ \E f \in FileNames : RowsOf(f, id) # {}
        /\ \A f \in FileNames : \A row \in RowsOf(f, id) :
               ~needsEnrich(getHistoricalEvent(store0, id), row)}

\* An event without its laneIndex.
SansLane(ev) == [k \in (DOMAIN ev) \ {"laneIndex"} |-> ev[k]]

\* C35 (frame of a run): a stored event whose row is still present and for
\* which needsEnrich is false has, after a run that completed with no failure,
\* every field other than laneIndex as before the run, wherever its row is now.
C35_FrameOfRun ==
    FirstRunDone =>
        \A id \in SettledEvents :
            id \in DOMAIN store /\ SansLane(store[id]) = SansLane(store0[id])

\* The same, at every moment of a first run and whatever fails, for the events
\* whose row is in the file they were stored under.
C35_FrameUnlessMoved ==
    Len(promises) <= 1 =>
        \A id \in SettledEvents :
            RowsOf(store0[id].sourceFile, id) # {} =>
                id \in DOMAIN store /\ SansLane(store[id]) = SansLane(store0[id])

\* Such an event's row is on another line than the one recorded.
C35_MovedLineKept ==
    /\ FirstRunDone
    /\ \E id \in SettledEvents :
          /\ id \in DOMAIN store
          /\ \A row \in RowsOf(store[id].sourceFile, id) : row.sourceLine # store[id].sourceLine
          /\ RowsOf(store[id].sourceFile, id) # {}

\* No two records of the sequence have the same id.
DistinctIds(events) ==
    \A i, j \in DOMAIN events : events[i].id = events[j].id => i = j

\* C36 (single enrichment per id): among the tasks of a file no two enrich the
\* same event id, and the array handed to the file's bulkUpsertHistoricalEvents
\* holds at most one record per id, under every interleaving of the tasks.
C36_SingleEnrichmentPerId ==
    /\ \A t1, t2 \in log.tasks : t1.event.id = t2.event.id => t1 = t2
    /\ DistinctIds(run.toUpsert)

\* The same for the files in which every row has an id of its own.
C36_SingleWhenRowsDistinct ==
    (run.pc \in {"tasks", "upsert"} /\ DistinctIds([i \in DOMAIN run.rows |-> [id |-> RowId(run.rows[i])]]))
        => /\ \A t1, t2 \in log.tasks : t1.event.id = t2.event.id => t1 = t2
           /\ DistinctIds(run.toUpsert)

\* A file of two or more rows, ids distinct, gave an upsert of two records.
C36_TwoRecordsUpserted ==
    /\ run.pc = "upsert"
    /\ DistinctIds([i \in DOMAIN run.rows |-> [id |-> RowId(run.rows[i])]])
    /\ Len(run.toUpsert) >= 2

\* The sequence without its k-th element.
RemoveAt(seq, k) == SubSeq(seq, 1, k - 1) \o SubSeq(seq, k + 1, Len(seq))

\* The positions of laneIn whose event is dated strictly after every other.
StrictlyLatest ==
    {k \in DOMAIN laneIn :
        \A j \in (DOMAIN laneIn) \ {k} : GetTime(laneIn[j].date) < GetTime(laneIn[k].date)}

\* C37 (lane prefix stability): when the events given to assignHistoricalLanes
\* are some events plus one event dated strictly after each of them, every one
\* of those events gets the laneIndex it gets without the added event.
C37_LanePrefixStability ==
    laneDone =>
        \A k \in StrictlyLatest : \A j \in (DOMAIN laneIn) \ {k} :
            \E r \in DOMAIN laneOut :
                /\ laneOut[r].id = laneIn[j].id
                /\ laneOut[r].laneIndex = LaneGiven(RemoveAt(laneIn, k), laneIn[j].id)

\* Two events less than 45 days apart, and a later third less than 45 days from
\* one of them, first in the input.
C37_Witness ==
    /\ laneDone
    /\ Len(laneIn) = 3
    /\ 1 \in StrictlyLatest
    /\ AbsDiff(GetTime(laneIn[1].date), GetTime(laneIn[2].date)) < CANONICAL_WIDTH_DAYS * MS_IN_DAY
    /\ AbsDiff(GetTime(laneIn[2].date), GetTime(laneIn[3].date)) < CANONICAL_WIDTH_DAYS * MS_IN_DAY

\* The file's header lacks date or url; the file has fewer than two lines.
HeaderError(f) == Len(files[f]) >= 2 /\ ~HeaderNamesBoth(files[f])
ShortFile(f) == Len(files[f]) < 2
NoRowsFile(f) == HeaderError(f) \/ ShortFile(f)

\* The step in which the current file's loader returns, and the step in which
\* the current file's delete succeeds.
LoadStep == run.pc = "load" /\ log'.loaded # log.loaded
DeleteStep == run.pc = "delete" /\ run'.pc = "tasks"

\* The pass over file f has got beyond its delete.
PassedDelete(f) ==
    /\ f \in log.loaded
    /\ log.failedAt # "delete"
    /\ ~(run.pc = "delete" /\ FileName = f)

\* What the run does with a loaded file without rows: zero rows and the error
\* count of parseTsv, every event the snapshot has under the file is to be
\* removed, and after the delete no stored event has the file as sourceFile.
NoRowsLoad ==
    (LoadStep /\ NoRowsFile(FileName)) =>
        /\ run'.rows = <<>>
        /\ run'.totalErrors = run.totalErrors + (IF HeaderError(FileName) THEN 1 ELSE 0)
        /\ run'.toRemove = IdsOfFile(FileName)

NoRowsEmptied ==
    \A f \in FileNames :
        (NoRowsFile(f) /\ PassedDelete(f)) =>
            \A id \in DOMAIN store : store[id].sourceFile # f

\* The delete of a file without rows leaves the events of other files alone.
NoRowsOthersKept ==
    (DeleteStep /\ NoRowsFile(FileName)) =>
        \A id \in DOMAIN store :
            store[id].sourceFile # FileName => id \in DOMAIN store' /\ store'[id] = store[id]

\* C38 (header error as empty file): a loaded file whose header lacks date or
\* url, or that has fewer than two lines, is taken as a file of zero rows:
\* every stored event whose sourceFile is that file is deleted, a header
\* without date or url adds exactly one to the error total (a short file
\* nothing), and no event of any other file is deleted or changed by it.
C38_HeaderErrorAsEmptyFile ==
    /\ []NoRowsEmptied
    /\ [][NoRowsLoad /\ NoRowsOthersKept]_vars

\* The same without the events of other files.
C38_EmptiedAndCounted ==
    /\ []NoRowsEmptied
    /\ [][NoRowsLoad]_vars

\* What the delete of a file without rows removes is what the snapshot taken
\* at the start of the run has under that file.
C38_SnapshotEventsOnly ==
    [][(DeleteStep /\ NoRowsFile(FileName)) =>
          /\ (DOMAIN store) \ (DOMAIN store') \subseteq IdsOfFile(FileName)
          /\ \A id \in DOMAIN store' : store'[id] = store[id]]_vars

\* A file with a header error was emptied of a stored event.
C38_HeaderErrorEmptied ==
    \E f \in FileNames :
        /\ HeaderError(f) /\ PassedDelete(f)
        /\ \E d \in log.deleted : d.sourceFile = f

====
